---- MODULE Spec2Model ----
(***************************************************************************)
(* Model of the shell's line handling: main reads one line, trims it,      *)
(* tokenizes it (parser::parse_prompt), assembles the pipeline             *)
(* (parser::parse_pipeline, parse_command, extract_redirects) and either   *)
(* hands the pipeline to the executor or reports the parse error.          *)
(*                                                                         *)
(* A character is a one-character string, a Rust String is a sequence of   *)
(* characters, a Vec<String> is a sequence of such sequences.              *)
(***************************************************************************)
EXTENDS Integers, Sequences, FiniteSets, TLC

VARIABLES
    line,          \* the line rl.readline returned
    history,       \* History.items
    pc,            \* position of main's loop body
    prompt,        \* line.trim()
    pos,           \* index of the next character `chars` yields (parse_prompt)
    tokens,        \* parse_prompt: tokens, then parse_pipeline's argument
    buffer,        \* parse_prompt: buffer
    quote,         \* parse_prompt: quote
    segments,      \* parse_pipeline: segments
    seg,           \* parse_pipeline: index i of the segment being parsed (1-based)
    commands,      \* parse_pipeline: commands
    final_streams, \* parse_pipeline: final_streams (None or a pair of sinks)
    name,          \* parse_command: name
    args,          \* extract_redirects: args
    ai,            \* extract_redirects: index of the next word `iter` yields
    filtered,      \* extract_redirects: filtered
    stdout,        \* extract_redirects: stdout
    stderr,        \* extract_redirects: stderr
    opened,        \* files opened by FileOutput::new so far, in order
    err,           \* the Err parse_pipeline returned, or None
    terminal_err,  \* lines main wrote with eprintln!
    started,       \* handle_pipeline has been called for this line
    stage,         \* handle_pipeline: index of the stage being executed (1-based)
    input,         \* handle_pipeline: the Option<PipeReader> for the next stage
    xerr,          \* the Err execute_command returned, or None
    children,      \* the child processes spawned, by stage
    pipes,         \* the OS pipes created, in order of creation
    threads,       \* the threads spawned with thread::spawn, in order
    written,       \* what reached the terminal and the files, in order
    cwd,           \* the working directory of the shell process
    exit_code      \* the code the shell process has ended with, if it has

vars == <<line, history, pc, prompt, pos, tokens, buffer, quote, segments, seg,
          commands, final_streams, name, args, ai, filtered, stdout, stderr,
          opened, err, terminal_err, started, stage, input, xerr, children,
          pipes, threads, written, cwd, exit_code>>

tokVars == <<pos, tokens, buffer, quote>>
pipeVars == <<segments, seg, commands, final_streams>>
cmdVars == <<name, args, ai, filtered, stdout, stderr>>
execVars == <<stage, input, xerr, children, pipes, threads, written, cwd,
              exit_code>>

----------------------------------------------------------------------------
(* Bounds of the model *)

MaxLen == 3      \* longest line over the full alphabet
MaxPlain == 5    \* longest line over letters, space and pipe
MaxQuote == 5    \* longest line over a letter, space, newline, quotes and backslash
MaxWords == 3    \* most words after the command name in a line of words
MaxStages == 2   \* most stages in a line of piped commands
MaxEcho == 2     \* most words after `echo` in a line of echo arguments
PipeCap == 1     \* lines an OS pipe buffers before its writer blocks
ErrLines == 1    \* lines an external program writes to its stderr
PieceLen == 3    \* characters of a built-in's line a pipe takes in one write
MaxRedirs == 3   \* most redirects of one stage in a line of redirects

----------------------------------------------------------------------------
(* Characters *)

SP == " "
TAB == "\t"
NL == "\n"
PIPE == "|"
SQUOTE == "'"
DQUOTE == "\""
BSLASH == "\\"
DOLLAR == "$"
BTICK == "BACKTICK"   \* the backtick character (not writable in a TLA+ string)

CR == "\r"
FF == "\f"
BEL == "BEL"          \* '\x07'
BS == "BS"            \* '\x08'
VT == "VT"            \* '\x0B'
ESC == "ESC"          \* '\x1B'
SLASH == "/"
TILDE == "~"

None == "None"

\* Stdio::inherit(), and the None of an Option<PipeReader>: no pipe
NoPipe == 0

SeqsUpTo(S, n) == UNION {[1..k -> S] : k \in 0..n}

RECURSIVE JoinWith(_, _)
\* [String]::join(sep)
JoinWith(ws, sep) ==
    IF ws = <<>> THEN <<>>
    ELSE IF Len(ws) = 1 THEN ws[1]
    ELSE ws[1] \o sep \o JoinWith(Tail(ws), sep)

JoinSpaces(ws) == JoinWith(ws, <<SP>>)

RECURSIVE Concat(_)
\* [String]::concat
Concat(ws) == IF ws = <<>> THEN <<>> ELSE Head(ws) \o Concat(Tail(ws))

----------------------------------------------------------------------------
(* main: the line read and its trimming *)

\* char::is_whitespace, restricted to the characters of the model
IsWhitespace(c) == c \in {SP, TAB, NL}

RECURSIVE TrimStart(_)
TrimStart(s) ==
    IF s # <<>> /\ IsWhitespace(Head(s)) THEN TrimStart(Tail(s)) ELSE s

RECURSIVE TrimEnd(_)
TrimEnd(s) ==
    IF s # <<>> /\ IsWhitespace(s[Len(s)])
    THEN TrimEnd(SubSeq(s, 1, Len(s) - 1)) ELSE s

\* str::trim
Trim(s) == TrimEnd(TrimStart(s))

----------------------------------------------------------------------------
(* parser::parse_prompt *)

\* the closure `push`: a non-empty buffer becomes a token
Push(buf, toks) == IF buf # <<>> THEN Append(toks, buf) ELSE toks

\* A tokenizer state is [pos, tokens, buffer, quote]; each arm below takes the
\* state st at the head of the while loop (and the prompt p when it looks at
\* it), with c = p[st.pos] the character chars.next() yields, and gives the
\* state after the iteration.

\* the whitespace arm with a push that forgets buffer.clear()
UnquotedWhitespaceArmNoClear(st) ==
    [st EXCEPT !.tokens = Push(st.buffer, st.tokens), !.pos = @ + 1]

\* line 29: unquoted whitespace ends the pending token
UnquotedWhitespaceArm(st) ==
    [st EXCEPT !.tokens = Push(st.buffer, st.tokens), !.buffer = <<>>,
               !.pos = @ + 1]

\* the pipe arm without its push of the pending buffer
UnquotedPipeArmNoFlush(st) ==
    [st EXCEPT !.tokens = Append(st.tokens, <<PIPE>>), !.pos = @ + 1]

\* lines 30-33: a bare pipe ends the pending token and is a token of its own
UnquotedPipeArm(st) ==
    [st EXCEPT !.tokens = Append(Push(st.buffer, st.tokens), <<PIPE>>),
               !.buffer = <<>>, !.pos = @ + 1]

\* the unquoted backslash dropped without consuming the next character
UnquotedBackslashArmPeek(p, st) == [st EXCEPT !.pos = @ + 1]

\* lines 36-40: the backslash is dropped, chars.next() is copied
UnquotedBackslashArm(p, st) ==
    IF st.pos + 1 <= Len(p)
    THEN [st EXCEPT !.buffer = Append(@, p[st.pos + 1]), !.pos = @ + 2]
    ELSE [st EXCEPT !.pos = @ + 1]

\* lines 28-42
UnquotedArm(p, st) ==
    LET c == p[st.pos] IN
    CASE IsWhitespace(c) -> UnquotedWhitespaceArm(st)
      [] c = PIPE -> UnquotedPipeArm(st)
      [] c = SQUOTE -> [st EXCEPT !.quote = "SingleQuoted", !.pos = @ + 1]
      [] c = DQUOTE -> [st EXCEPT !.quote = "DoubleQuoted", !.pos = @ + 1]
      [] c = BSLASH -> UnquotedBackslashArm(p, st)
      [] OTHER -> [st EXCEPT !.buffer = Append(@, c), !.pos = @ + 1]

\* the single-quoted arm with a closing quote that also ends the token
SingleQuotedArmFlush(p, st) ==
    LET c == p[st.pos] IN
    IF c = SQUOTE
    THEN [st EXCEPT !.tokens = Push(st.buffer, st.tokens), !.buffer = <<>>,
                    !.quote = "Unquoted", !.pos = @ + 1]
    ELSE [st EXCEPT !.buffer = Append(@, c), !.pos = @ + 1]

\* the single-quoted arm with a backslash that escapes the next character
SingleQuotedArmEscapes(p, st) ==
    LET c == p[st.pos] IN
    CASE c = SQUOTE -> [st EXCEPT !.quote = "Unquoted", !.pos = @ + 1]
      [] c = BSLASH /\ st.pos + 1 <= Len(p) ->
           [st EXCEPT !.buffer = Append(@, p[st.pos + 1]), !.pos = @ + 2]
      [] OTHER -> [st EXCEPT !.buffer = Append(@, c), !.pos = @ + 1]

\* lines 43-46
SingleQuotedArm(p, st) ==
    LET c == p[st.pos] IN
    IF c = SQUOTE
    THEN [st EXCEPT !.quote = "Unquoted", !.pos = @ + 1]
    ELSE [st EXCEPT !.buffer = Append(@, c), !.pos = @ + 1]

\* the double-quoted backslash escaping whatever follows it
DoubleQuotedBackslashArmAny(p, st) ==
    IF st.pos + 1 <= Len(p)
    THEN [st EXCEPT !.buffer = Append(@, p[st.pos + 1]), !.pos = @ + 2]
    ELSE [st EXCEPT !.buffer = Append(@, BSLASH), !.pos = @ + 1]

\* lines 49-62: chars.peek() decides whether the backslash escapes
DoubleQuotedBackslashArm(p, st) ==
    IF st.pos + 1 <= Len(p)
    THEN LET next_ch == p[st.pos + 1] IN
         IF next_ch \in {BSLASH, DQUOTE, DOLLAR, BTICK, NL}
         THEN IF next_ch # NL
              THEN [st EXCEPT !.buffer = Append(@, next_ch), !.pos = @ + 2]
              ELSE [st EXCEPT !.pos = @ + 2]
         ELSE [st EXCEPT !.buffer = Append(@, BSLASH), !.pos = @ + 1]
    ELSE [st EXCEPT !.buffer = Append(@, BSLASH), !.pos = @ + 1]

\* lines 47-64
DoubleQuotedArm(p, st) ==
    LET c == p[st.pos] IN
    CASE c = DQUOTE -> [st EXCEPT !.quote = "Unquoted", !.pos = @ + 1]
      [] c = BSLASH -> DoubleQuotedBackslashArm(p, st)
      [] OTHER -> [st EXCEPT !.buffer = Append(@, c), !.pos = @ + 1]

\* one iteration of `while let Some(c) = chars.next()`
StepChar(p, st) ==
    CASE st.quote = "Unquoted" -> UnquotedArm(p, st)
      [] st.quote = "SingleQuoted" -> SingleQuotedArm(p, st)
      [] st.quote = "DoubleQuoted" -> DoubleQuotedArm(p, st)

StartState == [pos |-> 1, tokens |-> <<>>, buffer |-> <<>>, quote |-> "Unquoted"]

RECURSIVE RunChars(_, _)
\* the while loop, from state st to the end of the prompt
RunChars(p, st) ==
    IF st.pos > Len(p) THEN st ELSE RunChars(p, StepChar(p, st))

\* parse_prompt as a function of the prompt
ParsePrompt(p) ==
    LET st == RunChars(p, StartState) IN Push(st.buffer, st.tokens)

----------------------------------------------------------------------------
(* output: the sinks *)

StdOutput == [kind |-> "StdOutput", path |-> <<>>, append |-> FALSE]
StdErrOutput == [kind |-> "StdErrOutput", path |-> <<>>, append |-> FALSE]
\* the value FileOutput::new(path, append) returns when the open succeeds
FileOutput(path, append) == [kind |-> "FileOutput", path |-> path, append |-> append]

\* Output::is_redirected
is_redirected(o) == o.kind = "FileOutput"

\* OutputStreams::new
OutputStreams(out, errout) == [stdout |-> out, stderr |-> errout]

----------------------------------------------------------------------------
(* parser::extract_redirects, parse_command, parse_pipeline *)

\* the words the match of extract_redirects recognises
StdoutTruncOps == {<<">">>, <<"1", ">">>}
StderrTruncOps == {<<"2", ">">>}
StdoutAppendOps == {<<">", ">">>, <<"1", ">", ">">>}
StderrAppendOps == {<<"2", ">", ">">>}
RedirectOps == StdoutTruncOps \cup StderrTruncOps \cup StdoutAppendOps \cup StderrAppendOps

\* the append flag with the arm of `1>>` passing false
AppendFlagShortOnly(op) == op \in {<<">", ">">>, <<"2", ">", ">">>}

\* the append flag the arm of operator op passes to FileOutput::new
AppendFlag(op) == op \in StdoutAppendOps \cup StderrAppendOps
\* the arm of operator op assigns stdout (otherwise stderr)
SetsStdout(op) == op \in StdoutTruncOps \cup StdoutAppendOps

\* the serialization of CommandKind::History, the variant parse_command
\* matches
HistoryName == <<"h", "i", "s", "t", "o", "r", "y">>

\* the names matched with ascii_case_insensitive
CommandKindOfIgnoreCase(w) ==
    CASE w \in {<<"e", "x", "i", "t">>} -> "Exit"
      [] w \in {<<"e", "c", "h", "o">>, <<"E", "c", "h", "o">>} -> "Echo"
      [] w \in {<<"t", "y", "p", "e">>} -> "Type"
      [] w \in {<<"p", "w", "d">>} -> "Pwd"
      [] w \in {<<"c", "d">>, <<"C", "D">>} -> "Cd"
      [] w = HistoryName -> "History"
      [] OTHER -> "Err"

\* name.parse::<CommandKind>(): the strum serializations
CommandKindOf(w) ==
    CASE w = <<"e", "x", "i", "t">> -> "Exit"
      [] w = <<"e", "c", "h", "o">> -> "Echo"
      [] w = <<"t", "y", "p", "e">> -> "Type"
      [] w = <<"p", "w", "d">> -> "Pwd"
      [] w = <<"c", "d">> -> "Cd"
      [] w = HistoryName -> "History"
      [] OTHER -> "Err"

\* the Command parse_command builds from the name and the filtered words
BuildCommand(nm, fargs) ==
    LET arg_str == JoinSpaces(fargs)
        kind == CommandKindOf(nm)
        blank == [kind |-> kind, text |-> <<>>, interpret_escapes |-> FALSE,
                  command |-> <<>>, args |-> <<>>]
    IN CASE kind = "Echo" ->
              IF fargs # <<>> /\ fargs[1] = <<"-", "e">>
              THEN [blank EXCEPT !.text = JoinSpaces(Tail(fargs)),
                                 !.interpret_escapes = TRUE]
              ELSE [blank EXCEPT !.text = arg_str]
         [] kind \in {"Type", "Cd"} -> [blank EXCEPT !.text = arg_str]
         [] kind \in {"Exit", "Pwd", "History"} -> blank
         [] OTHER -> [blank EXCEPT !.kind = "Exec", !.command = nm, !.args = fargs]

RECURSIVE SplitAt(_, _, _)
\* slice::split(|t| t == "|"): cur is the segment being collected, acc the
\* segments before it
SplitAt(toks, cur, acc) ==
    IF toks = <<>> THEN Append(acc, cur)
    ELSE IF Head(toks) = <<PIPE>>
         THEN SplitAt(Tail(toks), <<>>, Append(acc, cur))
         ELSE SplitAt(Tail(toks), Append(cur, Head(toks)), acc)

NonEmpty(s) == s # <<>>

\* the segments with the boundary tokens dropped instead of split at
SegmentsMerged(toks) ==
    LET ws == SelectSeq(toks, LAMBDA t : t # <<PIPE>>) IN
    IF ws = <<>> THEN <<>> ELSE <<ws>>

\* the `segments` of parse_pipeline
Segments(toks) == SelectSeq(SplitAt(toks, <<>>, <<>>), NonEmpty)

----------------------------------------------------------------------------
(* commands: the built-ins *)

\* one `Some(c)` arm of the match in interpret_escape_sequences with the
\* arm of an unknown character dropping the backslash
EscapeOfDropsBackslash(c) ==
    CASE c = "n" -> <<NL>>
      [] c = "t" -> <<TAB>>
      [] c = "r" -> <<CR>>
      [] c = BSLASH -> <<BSLASH>>
      [] c = "a" -> <<BEL>>
      [] c = "b" -> <<BS>>
      [] c = "f" -> <<FF>>
      [] c = "v" -> <<VT>>
      [] c = "e" -> <<ESC>>
      [] OTHER -> <<c>>

\* the `Some(c)` arms of the match on the character after a backslash
EscapeOf(c) ==
    CASE c = "n" -> <<NL>>
      [] c = "t" -> <<TAB>>
      [] c = "r" -> <<CR>>
      [] c = BSLASH -> <<BSLASH>>
      [] c = "a" -> <<BEL>>
      [] c = "b" -> <<BS>>
      [] c = "f" -> <<FF>>
      [] c = "v" -> <<VT>>
      [] c = "e" -> <<ESC>>
      [] OTHER -> <<BSLASH, c>>

RECURSIVE interpret_escape_sequences(_)
\* the while loop over s.chars(): a backslash takes the character after it
interpret_escape_sequences(s) ==
    IF s = <<>> THEN <<>>
    ELSE IF Head(s) = BSLASH
         THEN IF Len(s) = 1 THEN <<BSLASH>>
              ELSE EscapeOf(s[2]) \o interpret_escape_sequences(SubSeq(s, 3, Len(s)))
         ELSE <<Head(s)>> \o interpret_escape_sequences(Tail(s))

\* the file system the shell runs in: the home directory, the directory the
\* shell is started in and the directories
HomeDir == <<SLASH, "h">>
StartDir == <<SLASH, "s">>
Dirs == {HomeDir, StartDir, HomeDir \o <<SLASH, "d">>, StartDir \o <<SLASH, "d">>}

\* env::var_os("PATH") is /a:/b: the directories env::split_paths yields, in
\* listed order
PathDirs == << <<SLASH, "a">>, <<SLASH, "b">> >>

\* the None of an Option<PathBuf>
NoMatch == <<>>

\* an entry of a directory: is_file (Path::is_file: a regular file, through
\* symbolic links), xbit (is_executable: one of the executable permission
\* bits is set), access (the user of the shell may execute it) and real
\* (what fs::canonicalize gives for it)
Entry(path, is_file, xbit, access, real) ==
    [path |-> path, is_file |-> is_file, xbit |-> xbit, access |-> access,
     real |-> real]

\* the entries of the PATH directories: p is a program in /b; /a/q is a
\* directory and /b/q a program; r is a program in both; /a/l is a symbolic
\* link to the program /c/t; /a/u and /a/w are files with an executable bit
\* that is not one for the user of the shell, /b/u is a program
PathEntries ==
    {Entry(<<SLASH, "b", SLASH, "p">>, TRUE, TRUE, TRUE, <<SLASH, "b", SLASH, "p">>),
     Entry(<<SLASH, "a", SLASH, "q">>, FALSE, TRUE, FALSE, <<SLASH, "a", SLASH, "q">>),
     Entry(<<SLASH, "b", SLASH, "q">>, TRUE, TRUE, TRUE, <<SLASH, "b", SLASH, "q">>),
     Entry(<<SLASH, "a", SLASH, "r">>, TRUE, TRUE, TRUE, <<SLASH, "a", SLASH, "r">>),
     Entry(<<SLASH, "b", SLASH, "r">>, TRUE, TRUE, TRUE, <<SLASH, "b", SLASH, "r">>),
     Entry(<<SLASH, "a", SLASH, "l">>, TRUE, TRUE, TRUE, <<SLASH, "c", SLASH, "t">>),
     Entry(<<SLASH, "a", SLASH, "u">>, TRUE, TRUE, FALSE, <<SLASH, "a", SLASH, "u">>),
     Entry(<<SLASH, "b", SLASH, "u">>, TRUE, TRUE, TRUE, <<SLASH, "b", SLASH, "u">>),
     Entry(<<SLASH, "a", SLASH, "w">>, TRUE, TRUE, FALSE, <<SLASH, "a", SLASH, "w">>)}

\* a path that names nothing
NoEntry == Entry(<<>>, FALSE, FALSE, FALSE, <<>>)

\* Path::join
PathJoin(base, rel) ==
    IF rel = <<>> THEN base
    ELSE IF Head(rel) = SLASH THEN rel
    ELSE base \o <<SLASH>> \o rel

\* the `target` of cd: the home directory for "" and "~", the home directory
\* joined with the rest for "~/rest", else the path itself
CdTarget(path) ==
    IF path = <<>> \/ path = <<TILDE>> THEN HomeDir
    ELSE IF Len(path) >= 2 /\ SubSeq(path, 1, 2) = <<TILDE, SLASH>>
         THEN PathJoin(HomeDir, SubSeq(path, 3, Len(path)))
    ELSE path

\* env::set_current_dir(t) resolves t against the working directory; it
\* succeeds when the result is a directory
ResolveDir(dir, t) == PathJoin(dir, t)

\* the metadata of full_path
Lookup(full_path) ==
    IF \E e \in PathEntries : e.path = full_path
    THEN CHOOSE e \in PathEntries : e.path = full_path
    ELSE NoEntry

RECURSIVE FindFrom(_, _)
\* find_map over the PATH directories from the i-th on: the first
\* dir.join(executable) that is a file and is executable, canonicalized
FindFrom(executable, i) ==
    IF i > Len(PathDirs) THEN NoMatch
    ELSE LET full_path == PathJoin(PathDirs[i], executable) IN
         IF Lookup(full_path).is_file /\ Lookup(full_path).xbit
         THEN Lookup(full_path).real
         ELSE FindFrom(executable, i + 1)

\* find_in_path(executable): the path found, or None
find_in_path(executable) == FindFrom(executable, 1)

RECURSIVE ExecFrom(_, _)
\* the search the operating system makes for a program named without a
\* slash, from the i-th PATH directory on: the first entry the user may
\* execute (an entry that is refused is passed over)
ExecFrom(program, i) ==
    IF i > Len(PathDirs) THEN NoMatch
    ELSE LET full_path == PathJoin(PathDirs[i], program) IN
         IF Lookup(full_path).is_file /\ Lookup(full_path).access
         THEN Lookup(full_path).real
         ELSE ExecFrom(program, i + 1)

\* CmdCommand::new(command).spawn(): the file that is executed for the name
\* given to CmdCommand::new, or none when the spawn fails; a name with a
\* slash is not searched for
Spawned(command) ==
    IF \E i \in DOMAIN command : command[i] = SLASH
    THEN IF Lookup(command).is_file /\ Lookup(command).access
         THEN Lookup(command).real ELSE NoMatch
    ELSE ExecFrom(command, 1)

\* the io::Error of a spawn that fails
SpawnError == <<"Permission denied (os error 13)">>

\* is_built_in, over the CommandKind of commands.rs
is_built_in(w) == CommandKindOf(w) # "Err"

\* the messages of the errors execute_command returns
NotFoundError(command) == command \o <<": command not found">>
CdError(path) == <<"cd: ">> \o path \o <<": No such file or directory">>

\* the text the arms Echo, Pwd and Type of execute_command print or pipe
OutputText(cmd, dir) ==
    CASE cmd.kind = "Echo" ->
              IF cmd.interpret_escapes THEN interpret_escape_sequences(cmd.text)
              ELSE cmd.text
      [] cmd.kind = "Pwd" -> dir
      [] cmd.kind = "Type" ->
              IF is_built_in(cmd.text) THEN cmd.text \o <<" is a shell builtin">>
              ELSE IF find_in_path(cmd.text) # NoMatch
                   THEN cmd.text \o <<" is ">> \o find_in_path(cmd.text)
                   ELSE cmd.text \o <<": not found">>

----------------------------------------------------------------------------
(* The lines read *)

Alphabet == {"a", SP, TAB, NL, PIPE, SQUOTE, DQUOTE, BSLASH, DOLLAR, BTICK}
PlainChars == {"a", "b", SP, PIPE}
QuoteChars == {"a", SP, NL, SQUOTE, DQUOTE, BSLASH}
\* the words of a line of words: a program name, a path, the pipe, a quoted
\* pipe and the six redirect operators
ArgWords == {<<"a">>, <<"f">>, <<PIPE>>, <<SQUOTE, PIPE, SQUOTE>>} \cup RedirectOps

ShortLines == SeqsUpTo(Alphabet, MaxLen)
PlainLines == SeqsUpTo(PlainChars, MaxPlain)
QuoteLines == SeqsUpTo(QuoteChars, MaxQuote)
WordLines == {JoinSpaces(<<<<"a">>>> \o ws) : ws \in SeqsUpTo(ArgWords, MaxWords)}


\* lines of piped commands: a program on PATH, a name that is not, and the
\* built-ins echo, exit and cd, with the sinks of the last stage
StageTexts == {<<"p">>, <<"a">>, <<"e", "c", "h", "o", SP, "a">>,
               <<"e", "x", "i", "t">>, <<"c", "d">>}
Suffixes == {<<>>, <<SP, ">", SP, "f">>, <<SP, "2", ">", SP, "g">>,
             <<SP, ">", SP, "f", SP, "2", ">", ">", SP, "g">>}
PipeLines == {JoinWith(ss, <<PIPE>>) \o sfx :
                ss \in SeqsUpTo(StageTexts, MaxStages) \ {<<>>}, sfx \in Suffixes}

\* lines of echo: the flag and words with backslashes in single quotes, and
\* the double-quoted word "a\tb"
EchoWords == {<<"-", "e">>, <<"a">>,
              <<DQUOTE, "a", BSLASH, "t", "b", DQUOTE>>,
              <<SQUOTE, BSLASH, BSLASH, "n", BSLASH, "r", SQUOTE>>,
              <<SQUOTE, BSLASH, "a", BSLASH, "b", BSLASH, "f", SQUOTE>>,
              <<SQUOTE, BSLASH, "v", BSLASH, "e", BSLASH, "n", SQUOTE>>,
              <<SQUOTE, BSLASH, "q", BSLASH, SQUOTE>>}
EchoLines == {JoinSpaces(<< <<"e", "c", "h", "o">> >> \o ws) :
                ws \in SeqsUpTo(EchoWords, MaxEcho)}

\* lines of cd: no path, the home directory, paths below it, a directory
\* and names that are no directory
CdPaths == {<<>>, <<SP, TILDE>>, <<SP, TILDE, SLASH, "d">>, <<SP, TILDE, SLASH, "x">>,
            <<SP, "d">>, <<SP, "x">>, <<SP, SLASH, "h">>, <<SP, SLASH, "x">>}
CdLines == {<<"c", "d">> \o path \o rest :
              path \in CdPaths, rest \in {<<>>, <<PIPE, "p">>, <<PIPE, "c", "d">>}}

\* lines of one command: the names of the built-ins, names that differ
\* from one in case, by a prefix or by a suffix, and a program
CommandNames == {<<"e", "x", "i", "t">>, <<"e", "c", "h", "o">>, <<"t", "y", "p", "e">>,
                 <<"p", "w", "d">>, <<"c", "d">>,
                 <<"h", "i", "s", "t", "o", "r", "y">>,
                 <<"E", "c", "h", "o">>, <<"e", "c", "h", "o", "x">>,
                 <<"e", "c", "h">>, <<"C", "D">>, <<"p">>}
NameArgs == {<<>>, <<SP, "p">>, <<SP, "c", "d">>, <<SP, ">", SP, "f", SP, "a">>}
NameLines == {nm \o rest : nm \in CommandNames, rest \in NameArgs}

\* lines that end the shell after a built-in and a program have started
ExitLines == {<<"e", "c", "h", "o", SP, "a", PIPE, "p", PIPE, "e", "x", "i", "t">>,
              <<"p", PIPE, "p", PIPE, "e", "x", "i", "t">>}

\* lines that name the entries of the PATH directories, as a program, as
\* the argument of type and as the first of two stages
PathLines ==
    LET names == {<<"q">>, <<"r">>, <<"l">>, <<"u">>, <<"w">>} IN
    names \cup {<<"t", "y", "p", "e", SP>> \o nm : nm \in names}
          \cup {nm \o <<PIPE, "p">> : nm \in {<<"u">>, <<"w">>}}

\* lines whose first stage is a built-in with a line to hand on (one that
\* fits the pipe and ones that do not), or one with none, and whose second
\* stage reads it, ignores it, fails or ends the shell
RelayLines ==
    LET first == {<<"e", "c", "h", "o", SP, "a", "a", "a">>,
                  <<"e", "c", "h", "o", SP, "a", "a", "a", "a", "a", "a">>,
                  <<"t", "y", "p", "e", SP, "p">>, <<"p", "w", "d">>,
                  <<"h", "i", "s", "t", "o", "r", "y">>}
        next == {<<"p">>, <<"e", "c", "h", "o", SP, "a">>, <<"c", "d">>, <<"a">>,
                 <<"e", "x", "i", "t">>, <<"p", PIPE, "e", "x", "i", "t">>,
                 <<"p", SP, ">", SP, "f", SP, "2", ">", SP, "g">>,
                 <<"r">>, <<"r", SP, ">", SP, "f", SP, "2", ">", SP, "g">>}
    IN {a \o <<PIPE>> \o b : a \in first, b \in next}

\* lines with redirect operators in a stage before the last
InteriorLines ==
    LET first == {<<"p", SP, ">", SP, "f">>, <<"p", SP, "2", ">", SP, "g">>,
                  <<"e", "c", "h", "o", SP, "a", SP, ">", SP, "f">>,
                  <<"a", SP, ">", ">", SP, "f">>, <<"p", SP, ">">>}
        last == {<<"p">>, <<"e", "c", "h", "o", SP, "b">>}
        sinks == {<<>>, <<SP, ">", ">", SP, "f">>, <<SP, "2", ">", SP, "h">>}
    IN {a \o <<PIPE>> \o b \o sfx : a \in first, b \in last, sfx \in sinks}

\* the redirects ops, the k-th to the k-th of the targets f, g, h, i
RedirText(ops) ==
    LET targets == <<"f", "g", "h", "i">> IN
    Concat([k \in 1..Len(ops) |-> <<SP>> \o ops[k] \o <<SP, targets[k]>>])

\* lines of one stage that redirects two to MaxRedirs times
RedirLines ==
    LET ops == {<<">">>, <<">", ">">>, <<"2", ">">>, <<"1", ">">>}
        seqs == UNION {[1..k -> ops] : k \in 2..MaxRedirs}
    IN {st \o RedirText(os) :
          st \in {<<"p">>, <<"e", "c", "h", "o", SP, "a">>}, os \in seqs}

Lines == ShortLines \cup PlainLines \cup QuoteLines \cup WordLines
           \cup PipeLines \cup EchoLines \cup CdLines \cup NameLines
           \cup ExitLines \cup PathLines \cup RelayLines \cup InteriorLines
           \cup RedirLines

----------------------------------------------------------------------------
(* Initial state: rl.readline has returned Ok(line) *)

Init ==
    /\ line \in Lines
    /\ history = <<>>
    /\ pc = "readline"
    /\ prompt = <<>>
    /\ pos = 1
    /\ tokens = <<>>
    /\ buffer = <<>>
    /\ quote = "Unquoted"
    /\ segments = <<>>
    /\ seg = 1
    /\ commands = <<>>
    /\ final_streams = None
    /\ name = <<>>
    /\ args = <<>>
    /\ ai = 1
    /\ filtered = <<>>
    /\ stdout = StdOutput
    /\ stderr = StdErrOutput
    /\ opened = <<>>
    /\ err = None
    /\ terminal_err = <<>>
    /\ started = FALSE
    /\ stage = 1
    /\ input = NoPipe
    /\ xerr = <<>>
    /\ children = <<>>
    /\ pipes = <<>>
    /\ threads = <<>>
    /\ written = <<>>
    /\ cwd = StartDir
    /\ exit_code = <<>>

----------------------------------------------------------------------------
(* main, lines 32-41 *)

\* a line that trims to nothing: `continue`
SkipEmptyLine ==
    /\ pc = "readline"
    /\ Trim(line) = <<>>
    /\ prompt' = Trim(line)
    /\ pc' = "done"
    /\ UNCHANGED <<line, history, tokVars, pipeVars, cmdVars, opened, err,
                   terminal_err, started, execVars>>

\* the line is recorded in the history and parse_prompt(prompt) is entered
ReadLine ==
    /\ pc = "readline"
    /\ Trim(line) # <<>>
    /\ prompt' = Trim(line)
    /\ history' = Append(history, line)
    /\ pos' = StartState.pos
    /\ tokens' = StartState.tokens
    /\ buffer' = StartState.buffer
    /\ quote' = StartState.quote
    /\ pc' = "tokenize"
    /\ UNCHANGED <<line, pipeVars, cmdVars, opened, err, terminal_err, started, execVars>>

----------------------------------------------------------------------------
(* parse_prompt, one action per match arm *)

Cur == [pos |-> pos, tokens |-> tokens, buffer |-> buffer, quote |-> quote]

\* chars.next() yields a character in mode q
AtChar(q) == pc = "tokenize" /\ pos <= Len(prompt) /\ quote = q

\* the loop iteration takes the tokenizer to state st
Iterate(st) ==
    /\ pos' = st.pos
    /\ tokens' = st.tokens
    /\ buffer' = st.buffer
    /\ quote' = st.quote
    /\ UNCHANGED <<line, history, pc, prompt, pipeVars, cmdVars, opened, err,
                   terminal_err, started, execVars>>

UnquotedWhitespace ==
    AtChar("Unquoted") /\ IsWhitespace(prompt[pos]) /\ Iterate(StepChar(prompt, Cur))

UnquotedPipe ==
    AtChar("Unquoted") /\ prompt[pos] = PIPE /\ Iterate(StepChar(prompt, Cur))

UnquotedSingleQuote ==
    AtChar("Unquoted") /\ prompt[pos] = SQUOTE /\ Iterate(StepChar(prompt, Cur))

UnquotedDoubleQuote ==
    AtChar("Unquoted") /\ prompt[pos] = DQUOTE /\ Iterate(StepChar(prompt, Cur))

UnquotedBackslash ==
    AtChar("Unquoted") /\ prompt[pos] = BSLASH /\ Iterate(StepChar(prompt, Cur))

UnquotedOther ==
    /\ AtChar("Unquoted")
    /\ ~IsWhitespace(prompt[pos])
    /\ prompt[pos] \notin {PIPE, SQUOTE, DQUOTE, BSLASH}
    /\ Iterate(StepChar(prompt, Cur))

SingleQuotedClose ==
    AtChar("SingleQuoted") /\ prompt[pos] = SQUOTE /\ Iterate(StepChar(prompt, Cur))

SingleQuotedOther ==
    AtChar("SingleQuoted") /\ prompt[pos] # SQUOTE /\ Iterate(StepChar(prompt, Cur))

DoubleQuotedClose ==
    AtChar("DoubleQuoted") /\ prompt[pos] = DQUOTE /\ Iterate(StepChar(prompt, Cur))

DoubleQuotedBackslash ==
    AtChar("DoubleQuoted") /\ prompt[pos] = BSLASH /\ Iterate(StepChar(prompt, Cur))

DoubleQuotedOther ==
    /\ AtChar("DoubleQuoted")
    /\ prompt[pos] \notin {DQUOTE, BSLASH}
    /\ Iterate(StepChar(prompt, Cur))

\* the end of the line with the buffer of an open quote thrown away
EndOfPromptDropsOpen ==
    /\ pc = "tokenize"
    /\ pos > Len(prompt)
    /\ tokens' = IF quote = "Unquoted" THEN Push(buffer, tokens) ELSE tokens
    /\ buffer' = <<>>
    /\ pc' = "pipeline"
    /\ UNCHANGED <<line, history, prompt, pos, quote, pipeVars, cmdVars, opened,
                   err, terminal_err, started, execVars>>

\* lines 67-69: the last push, and the tokens are returned to main, which
\* passes them to parse_pipeline
EndOfPrompt ==
    /\ pc = "tokenize"
    /\ pos > Len(prompt)
    /\ tokens' = Push(buffer, tokens)
    /\ buffer' = <<>>
    /\ pc' = "pipeline"
    /\ UNCHANGED <<line, history, prompt, pos, quote, pipeVars, cmdVars, opened,
                   err, terminal_err, started, execVars>>

----------------------------------------------------------------------------
(* parse_pipeline, parse_command and extract_redirects *)

\* lines 116-127: the tokens are split into segments; no segment is an error
EmptyPipeline ==
    /\ pc = "pipeline"
    /\ Segments(tokens) = <<>>
    /\ segments' = Segments(tokens)
    /\ err' = "empty pipeline"
    /\ pc' = "failed"
    /\ UNCHANGED <<line, history, prompt, tokVars, seg, commands, final_streams,
                   cmdVars, opened, terminal_err, started, execVars>>

SplitPipeline ==
    /\ pc = "pipeline"
    /\ Segments(tokens) # <<>>
    /\ segments' = Segments(tokens)
    /\ commands' = <<>>
    /\ final_streams' = None
    /\ seg' = 1
    /\ pc' = "command"
    /\ UNCHANGED <<line, history, prompt, tokVars, cmdVars, opened, err,
                   terminal_err, started, execVars>>

\* lines 129-131, 148-149 and 73-77: parse_command(segment) takes the name
\* off the segment and enters extract_redirects(rest).  A segment is never
\* empty here, so split_first cannot fail.
ParseCommand ==
    /\ pc = "command"
    /\ seg <= Len(segments)
    /\ name' = Head(segments[seg])
    /\ args' = Tail(segments[seg])
    /\ ai' = 1
    /\ filtered' = <<>>
    /\ stdout' = StdOutput
    /\ stderr' = StdErrOutput
    /\ pc' = "redirects"
    /\ UNCHANGED <<line, history, prompt, tokVars, pipeVars, opened, err,
                   terminal_err, started, execVars>>

\* iter.next() yields a word in extract_redirects
AtWord == pc = "redirects" /\ ai <= Len(args)

\* line 108: a word that is no operator is kept
KeepWord ==
    /\ AtWord
    /\ args[ai] \notin RedirectOps
    /\ filtered' = Append(filtered, args[ai])
    /\ ai' = ai + 1
    /\ UNCHANGED <<line, history, pc, prompt, tokVars, pipeVars, name, args,
                   stdout, stderr, opened, err, terminal_err, started, execVars>>

\* an operator with no word after it taken for the end of the words
RedirectPathMissingIgnored ==
    /\ AtWord
    /\ args[ai] \in RedirectOps
    /\ ai + 1 > Len(args)
    /\ ai' = ai + 1
    /\ UNCHANGED <<line, history, pc, prompt, tokVars, pipeVars, name, args,
                   filtered, stdout, stderr, opened, err, terminal_err, started, execVars>>

\* lines 80-107: an operator with no word after it
RedirectPathMissing ==
    /\ AtWord
    /\ args[ai] \in RedirectOps
    /\ ai + 1 > Len(args)
    /\ ai' = ai + 1
    /\ err' = "redirect path missing"
    /\ pc' = "failed"
    /\ UNCHANGED <<line, history, prompt, tokVars, pipeVars, name, args,
                   filtered, stdout, stderr, opened, terminal_err, started, execVars>>

\* the file is opened but a sink that is a file already is kept
RedirectOpenFirstWins ==
    /\ AtWord
    /\ args[ai] \in RedirectOps
    /\ ai + 1 <= Len(args)
    /\ LET op == args[ai]
           path == args[ai + 1]
           file == FileOutput(path, AppendFlag(op))
       IN /\ opened' = Append(opened, [path |-> path, append |-> AppendFlag(op)])
          /\ stdout' = IF SetsStdout(op) /\ ~is_redirected(stdout) THEN file ELSE stdout
          /\ stderr' = IF ~SetsStdout(op) /\ ~is_redirected(stderr) THEN file ELSE stderr
    /\ ai' = ai + 2
    /\ UNCHANGED <<line, history, pc, prompt, tokVars, pipeVars, name, args,
                   filtered, err, terminal_err, started, execVars>>

\* lines 80-107: FileOutput::new creates or truncates the file (or opens it
\* for appending) and the sink of the operator's stream is replaced
RedirectOpen ==
    /\ AtWord
    /\ args[ai] \in RedirectOps
    /\ ai + 1 <= Len(args)
    /\ LET op == args[ai]
           path == args[ai + 1]
           file == FileOutput(path, AppendFlag(op))
       IN /\ opened' = Append(opened, [path |-> path, append |-> AppendFlag(op)])
          /\ stdout' = IF SetsStdout(op) THEN file ELSE stdout
          /\ stderr' = IF SetsStdout(op) THEN stderr ELSE file
    /\ ai' = ai + 2
    /\ UNCHANGED <<line, history, pc, prompt, tokVars, pipeVars, name, args,
                   filtered, err, terminal_err, started, execVars>>

\* lines 80-107 with output.rs 45-51: the operating system refuses the open
RedirectOpenFails ==
    /\ AtWord
    /\ args[ai] \in RedirectOps
    /\ ai + 1 <= Len(args)
    /\ ai' = ai + 2
    /\ err' = "cannot open file"
    /\ pc' = "failed"
    /\ UNCHANGED <<line, history, prompt, tokVars, pipeVars, name, args,
                   filtered, stdout, stderr, opened, terminal_err, started, execVars>>

\* the streams of the first segment kept instead of the last one's
FinishCommandKeepsFirst ==
    /\ pc = "redirects"
    /\ ai > Len(args)
    /\ commands' = Append(commands, BuildCommand(name, filtered))
    /\ final_streams' = IF seg = 1
                        THEN OutputStreams(stdout, stderr)
                        ELSE final_streams
    /\ seg' = seg + 1
    /\ pc' = IF seg = Len(segments) THEN "parsed" ELSE "command"
    /\ UNCHANGED <<line, history, prompt, tokVars, segments, cmdVars, opened,
                   err, terminal_err, started, execVars>>

\* lines 112, 151-176 and 132-137: the command is built and pushed; the last
\* segment's streams are kept
FinishCommand ==
    /\ pc = "redirects"
    /\ ai > Len(args)
    /\ commands' = Append(commands, BuildCommand(name, filtered))
    /\ final_streams' = IF seg = Len(segments)
                        THEN OutputStreams(stdout, stderr)
                        ELSE final_streams
    /\ seg' = seg + 1
    /\ pc' = IF seg = Len(segments) THEN "parsed" ELSE "command"
    /\ UNCHANGED <<line, history, prompt, tokVars, segments, cmdVars, opened,
                   err, terminal_err, started, execVars>>

----------------------------------------------------------------------------
(* main, lines 41-44 *)

\* Ok((command, streams)) => handle_pipeline(command, &mut streams, &history):
\* the loop over the stages starts with no input
HandlePipeline ==
    /\ pc = "parsed"
    /\ started' = TRUE
    /\ stage' = 1
    /\ input' = NoPipe
    /\ pc' = "stage"
    /\ UNCHANGED <<line, history, prompt, tokVars, pipeVars, cmdVars, opened,
                   err, terminal_err, xerr, children, pipes, threads, written, cwd, exit_code>>

\* Err(_) => eprintln!("{}: command not found", prompt)
ReportError ==
    /\ pc = "failed"
    /\ terminal_err' = Append(terminal_err,
                               [subject |-> prompt, text |-> "command not found"])
    /\ pc' = "done"
    /\ UNCHANGED <<line, history, prompt, tokVars, pipeVars, cmdVars, opened,
                   err, started, execVars>>

----------------------------------------------------------------------------
(* The pipes, the child processes and the threads *)

\* the None of an Option<&mut dyn Output>
NoOutput == [kind |-> "None", path |-> <<>>, append |-> FALSE]

\* os_pipe::pipe(), Stdio::piped(): an empty pipe with both ends open;
\* `sent` keeps everything that was written into it
NewPipe == [buf |-> <<>>, sent |-> <<>>, w |-> TRUE, r |-> TRUE]

\* a PipeReader is dropped: the read end of pipe rd is closed
DropReader(ps, rd) == IF rd = NoPipe THEN ps ELSE [ps EXCEPT ![rd].r = FALSE]

\* a write end is closed
DropWriter(ps, wr) == IF wr = NoPipe THEN ps ELSE [ps EXCEPT ![wr].w = FALSE]

\* a write of one line into pipe wr
WriteLine(ps, wr, l) ==
    [ps EXCEPT ![wr].buf = Append(@, l), ![wr].sent = Append(@, l)]

\* writeln!(writer, "{}", text) without the newline
PipedTextBare(text) == text

\* what writeln!(writer, "{}", text) writes
PipedText(text) == text \o <<NL>>

RECURSIVE Pieces(_)
\* the writes write_all makes for s: an empty string needs none, and the
\* pipe takes at most PieceLen characters at a time
Pieces(s) ==
    IF s = <<>> THEN <<>>
    ELSE IF Len(s) <= PieceLen THEN <<s>>
    ELSE <<SubSeq(s, 1, PieceLen)>> \o Pieces(SubSeq(s, PieceLen + 1, Len(s)))

\* BufRead::lines: a line without its newline
StripNewline(l) ==
    IF l # <<>> /\ l[Len(l)] = NL THEN SubSeq(l, 1, Len(l) - 1) ELSE l

\* an external program of the model: it reads its input to the end (when
\* its stdin is a pipe), writes ErrLines lines to stderr, writes OutLines
\* lines to stdout (more than a pipe buffers) and exits; the program /a/r
\* does the same but never reads its stdin
ReadsStdin(prog) == prog # <<SLASH, "a", SLASH, "r">>
Digits == <<"1", "2", "3", "4", "5", "6", "7", "8", "9">>
OutLines == PipeCap + 1
OutLine(k) == <<"o", Digits[k], NL>>
ErrLine(k) == <<"e", Digits[k], NL>>

\* CmdCommand::new(command).stdin(..).stdout(..).stderr(..).spawn()
NewChild(n, prog, in, out, errp) ==
    [stage |-> n, program |-> prog,
     st |-> IF in = NoPipe \/ ~ReadsStdin(prog) THEN "err" ELSE "read",
     stdin |-> in, stdout |-> out, stderr |-> errp,
     nout |-> 0, nerr |-> 0, got |-> <<>>, eof |-> FALSE, waited |-> 0]

\* the process exits: the kernel closes its ends of the pipes
CloseChildEnds(ps, ch) ==
    DropReader(DropWriter(DropWriter(ps, ch.stdout), ch.stderr), ch.stdin)

\* a line printed on the sink of a stream, or written by a child to an
\* inherited stream
Printed(sink, stream, n, text, who) ==
    [dest |-> sink, stream |-> stream, stage |-> n, text |-> text, by |-> who]

\* thread::spawn(move || { child.wait().ok(); })
WaitThread(c) == [kind |-> "wait", child |-> c, pipe |-> NoPipe, text |-> <<>>,
                  n |-> 0, st |-> "spawned"]

\* thread::spawn(move || { let _ = writeln!(writer, "{}", text); })
WriteThread(wr, text) == [kind |-> "write", child |-> 0, pipe |-> wr,
                          text |-> text, n |-> 0, st |-> "spawned"]

----------------------------------------------------------------------------
(* handle_pipeline: the loop over the stages *)

\* the stage being executed is the last one
IsLast == stage = Len(commands)

\* the command of the stage being executed
Cmd == commands[stage]

\* the stdout_output handed to execute_command: the stdout sink of the line
\* at the last stage, None before it
StdoutArg == IF IsLast THEN final_streams.stdout ELSE NoOutput

\* the stderr_output handed to execute_command: the stderr sink of the line
\* at the last stage, the terminal before it
StderrArg == IF IsLast THEN final_streams.stderr ELSE StdErrOutput

\* execute_command returned Ok(out): out is the input of the next stage; the
\* loop ends after the last stage
Advance(out) ==
    /\ input' = out
    /\ stage' = IF IsLast THEN stage ELSE stage + 1
    /\ pc' = IF IsLast THEN "done" ELSE "stage"

\* execute_command returned Err(e): the loop ends and e is reported
Halt(e) ==
    /\ xerr' = e
    /\ pc' = "stage_failed"
    /\ UNCHANGED <<stage, input>>

AtStage(kinds) == pc = "stage" /\ Cmd.kind \in kinds

parseVars == <<line, history, prompt, tokVars, pipeVars, cmdVars, opened, err,
               terminal_err, started>>

----------------------------------------------------------------------------
(* commands::execute_command, one action per arm *)

\* Command::Exit taken for a command that prints nothing
ExecExitReturns ==
    /\ AtStage({"Exit"})
    /\ pipes' = DropReader(pipes, input)
    /\ Advance(NoPipe)
    /\ UNCHANGED <<parseVars, xerr, children, threads, written, cwd, exit_code>>

\* line 65: Command::Exit => process::exit(0).  The process ends with all
\* its threads; the kernel closes the pipe ends the shell holds: the
\* input reader and the writers of the threads that have not written yet.
ExecExit ==
    /\ AtStage({"Exit"})
    /\ exit_code' = <<0>>
    /\ pc' = "exited"
    /\ pipes' = [i \in DOMAIN pipes |->
                  [pipes[i] EXCEPT
                     !.r = @ /\ i # input,
                     !.w = @ /\ ~\E t \in DOMAIN threads :
                                    /\ threads[t].kind = "write"
                                    /\ threads[t].pipe = i
                                    /\ threads[t].st = "spawned"]]
    /\ UNCHANGED <<parseVars, stage, input, xerr, children, threads, written, cwd>>

\* lines 66-69 and 125-138: cd succeeds and the arm returns Ok(None)
ExecCd ==
    /\ AtStage({"Cd"})
    /\ ResolveDir(cwd, CdTarget(Cmd.text)) \in Dirs
    /\ cwd' = ResolveDir(cwd, CdTarget(Cmd.text))
    /\ pipes' = DropReader(pipes, input)
    /\ Advance(NoPipe)
    /\ UNCHANGED <<parseVars, xerr, children, threads, written, exit_code>>

\* cd reporting the failure and changing the directory all the same
ExecCdFailsMoved ==
    /\ AtStage({"Cd"})
    /\ ResolveDir(cwd, CdTarget(Cmd.text)) \notin Dirs
    /\ cwd' = ResolveDir(cwd, CdTarget(Cmd.text))
    /\ pipes' = DropReader(pipes, input)
    /\ Halt(CdError(Cmd.text))
    /\ UNCHANGED <<parseVars, children, threads, written, exit_code>>

\* lines 66-69 and 125-138: set_current_dir fails and `?` returns the error
ExecCdFails ==
    /\ AtStage({"Cd"})
    /\ ResolveDir(cwd, CdTarget(Cmd.text)) \notin Dirs
    /\ pipes' = DropReader(pipes, input)
    /\ Halt(CdError(Cmd.text))
    /\ UNCHANGED <<parseVars, children, threads, written, cwd, exit_code>>

\* lines 70-110, `if let Some(out) = stdout_output`: the text of Echo, Pwd
\* or Type is printed on the stdout sink
ExecBuiltinPrint ==
    /\ AtStage({"Echo", "Pwd", "Type"})
    /\ StdoutArg.kind # "None"
    /\ written' = Append(written,
                         Printed(StdoutArg, "stdout", stage, OutputText(Cmd, cwd), "shell"))
    /\ pipes' = DropReader(pipes, input)
    /\ Advance(NoPipe)
    /\ UNCHANGED <<parseVars, xerr, children, threads, cwd, exit_code>>

\* lines 70-110, else branch, and pipe_string: a pipe is made, a thread is
\* spawned to write the text into it and the read end is returned
ExecBuiltinPipe ==
    /\ AtStage({"Echo", "Pwd", "Type"})
    /\ StdoutArg.kind = "None"
    /\ pipes' = Append(DropReader(pipes, input), NewPipe)
    /\ threads' = Append(threads, WriteThread(Len(pipes) + 1, OutputText(Cmd, cwd)))
    /\ Advance(Len(pipes) + 1)
    /\ UNCHANGED <<parseVars, xerr, children, written, cwd, exit_code>>

\* Command::History: the history collaborator lists the lines; nothing is
\* handed to the next stage
ExecHistory ==
    /\ AtStage({"History"})
    /\ pipes' = DropReader(pipes, input)
    /\ Advance(NoPipe)
    /\ UNCHANGED <<parseVars, xerr, children, threads, written, cwd, exit_code>>

----------------------------------------------------------------------------
(* commands::exec_piped *)

\* line 148 with the lookup result ignored
ExecNotFoundIgnored ==
    /\ AtStage({"Exec"})
    /\ find_in_path(Cmd.command) = NoMatch
    /\ children' = Append(children, NewChild(stage, NoMatch, input, NoPipe, NoPipe))
    /\ threads' = Append(threads, WaitThread(Len(children) + 1))
    /\ Advance(NoPipe)
    /\ UNCHANGED <<parseVars, xerr, pipes, written, cwd, exit_code>>

\* line 148: find_in_path finds nothing and `?` returns the error; the
\* input reader is dropped
ExecNotFound ==
    /\ AtStage({"Exec"})
    /\ find_in_path(Cmd.command) = NoMatch
    /\ pipes' = DropReader(pipes, input)
    /\ Halt(NotFoundError(Cmd.command))
    /\ UNCHANGED <<parseVars, children, threads, written, cwd, exit_code>>

\* lines 155-164: stdout is inherited at a final stage whose sink is the
\* terminal and piped otherwise
StdoutPiped(is_final, stdout_output) ==
    ~(is_final /\ ~is_redirected(stdout_output))

\* stderr piped whatever the sink
StderrPipedAlways(stderr_output) == TRUE

\* lines 166-171: stderr is piped when the stderr sink is redirected
StderrPiped(stderr_output) == is_redirected(stderr_output)

\* the last branch returning the read end with no thread to wait
AfterStderrNoThread(c, out) ==
    IF StdoutArg.kind # "None" /\ is_redirected(StdoutArg)
    THEN pc' = "drain_stdout" /\ UNCHANGED <<stage, input, threads>>
    ELSE IF StdoutArg.kind # "None"
    THEN pc' = "wait" /\ UNCHANGED <<stage, input, threads>>
    ELSE /\ threads' = threads
         /\ Advance(out)

\* lines 189-211, after the stderr of child c is dealt with: the stdout of a
\* final stage with a file sink is read next; a final stage with the
\* terminal sink is waited for; at any other stage the pipe's read end is
\* returned and a thread is spawned that waits for the child
AfterStderr(c, out) ==
    IF StdoutArg.kind # "None" /\ is_redirected(StdoutArg)
    THEN pc' = "drain_stdout" /\ UNCHANGED <<stage, input, threads>>
    ELSE IF StdoutArg.kind # "None"
    THEN pc' = "wait" /\ UNCHANGED <<stage, input, threads>>
    ELSE /\ threads' = Append(threads, WaitThread(c))
         /\ Advance(out)

\* lines 148-178: the program is found but the spawn fails: `?` returns the
\* error; the input reader, moved into stdin_cfg, is dropped
ExecSpawnFails ==
    /\ AtStage({"Exec"})
    /\ find_in_path(Cmd.command) # NoMatch
    /\ Spawned(Cmd.command) = NoMatch
    /\ pipes' = DropReader(pipes, input)
    /\ Halt(SpawnError)
    /\ UNCHANGED <<parseVars, children, threads, written, cwd, exit_code>>

\* lines 150-178: the program is found and spawned, its stdin on the input
\* pipe (or inherited), stdout and stderr piped or inherited
ExecSpawn ==
    /\ AtStage({"Exec"})
    /\ find_in_path(Cmd.command) # NoMatch
    /\ Spawned(Cmd.command) # NoMatch
    /\ LET is_final == StdoutArg.kind # "None"
           out_piped == StdoutPiped(is_final, StdoutArg)
           err_piped == StderrPiped(StderrArg)
           n == Len(pipes)
           out_id == IF out_piped THEN n + 1 ELSE NoPipe
           err_id == IF ~err_piped THEN NoPipe
                     ELSE IF out_piped THEN n + 2 ELSE n + 1
           c == Len(children) + 1
       IN /\ children' = Append(children, NewChild(stage, Spawned(Cmd.command), input,
                                                   out_id, err_id))
          /\ pipes' = pipes \o (IF out_piped THEN <<NewPipe>> ELSE <<>>)
                            \o (IF err_piped THEN <<NewPipe>> ELSE <<>>)
          /\ IF err_piped
             THEN pc' = "drain_stderr" /\ UNCHANGED <<stage, input, threads>>
             ELSE AfterStderr(c, out_id)
    /\ UNCHANGED <<parseVars, xerr, written, cwd, exit_code>>

\* the child of the stage being executed
CurChild == Len(children)

\* lines 181-187: a line of the child's stderr is printed on the stderr sink
DrainStderrLine ==
    /\ pc = "drain_stderr"
    /\ LET e == children[CurChild].stderr IN
       /\ pipes[e].buf # <<>>
       /\ written' = Append(written, Printed(StderrArg, "stderr", stage,
                                             StripNewline(Head(pipes[e].buf)), "shell"))
       /\ pipes' = [pipes EXCEPT ![e].buf = Tail(@)]
    /\ UNCHANGED <<parseVars, pc, stage, input, xerr, children, threads, cwd, exit_code>>

\* lines 181-187: the child's stderr is at its end
DrainStderrEof ==
    /\ pc = "drain_stderr"
    /\ LET e == children[CurChild].stderr IN
       /\ pipes[e].buf = <<>>
       /\ ~pipes[e].w
       /\ pipes' = DropReader(pipes, e)
    /\ AfterStderr(CurChild, children[CurChild].stdout)
    /\ UNCHANGED <<parseVars, xerr, children, written, cwd, exit_code>>

\* lines 189-196: a line of the child's stdout is printed on the stdout sink
DrainStdoutLine ==
    /\ pc = "drain_stdout"
    /\ LET o == children[CurChild].stdout IN
       /\ pipes[o].buf # <<>>
       /\ written' = Append(written, Printed(StdoutArg, "stdout", stage,
                                             StripNewline(Head(pipes[o].buf)), "shell"))
       /\ pipes' = [pipes EXCEPT ![o].buf = Tail(@)]
    /\ UNCHANGED <<parseVars, pc, stage, input, xerr, children, threads, cwd, exit_code>>

\* lines 189-197: the child's stdout is at its end; child.wait() is called
DrainStdoutEof ==
    /\ pc = "drain_stdout"
    /\ LET o == children[CurChild].stdout IN
       /\ pipes[o].buf = <<>>
       /\ ~pipes[o].w
       /\ pipes' = DropReader(pipes, o)
    /\ pc' = "wait"
    /\ UNCHANGED <<parseVars, stage, input, xerr, children, threads, written, cwd, exit_code>>

\* lines 197-201: child.wait() returns once the child has exited
WaitFinal ==
    /\ pc = "wait"
    /\ children[CurChild].st = "exited"
    /\ children' = [children EXCEPT ![CurChild].waited = @ + 1]
    /\ Advance(NoPipe)
    /\ UNCHANGED <<parseVars, xerr, pipes, threads, written, cwd, exit_code>>

\* the error of a stage is printed on the stderr sink of the line and the
\* pipeline ends
ReportStageError ==
    /\ pc = "stage_failed"
    /\ written' = Append(written, Printed(final_streams.stderr, "stderr", stage,
                                 xerr, "shell"))
    /\ pc' = "done"
    /\ UNCHANGED <<parseVars, stage, input, xerr, children, pipes, threads, cwd, exit_code>>

----------------------------------------------------------------------------
(* The external programs and the threads *)

\* lines 150-153: the child reads a line from the pipe that is its stdin
ChildRead(c) ==
    /\ c \in DOMAIN children
    /\ children[c].st = "read"
    /\ LET i == children[c].stdin IN
       /\ pipes[i].buf # <<>>
       /\ children' = [children EXCEPT ![c].got = Append(@, Head(pipes[i].buf))]
       /\ pipes' = [pipes EXCEPT ![i].buf = Tail(@)]
    /\ UNCHANGED <<parseVars, pc, stage, input, xerr, threads, written, cwd, exit_code>>

\* lines 150-153: the pipe is empty and its write end closed: end of file
ChildReadEof(c) ==
    /\ c \in DOMAIN children
    /\ children[c].st = "read"
    /\ LET i == children[c].stdin IN
       /\ pipes[i].buf = <<>>
       /\ ~pipes[i].w
    /\ children' = [children EXCEPT ![c].eof = TRUE, ![c].st = "err"]
    /\ UNCHANGED <<parseVars, pc, stage, input, xerr, pipes, threads, written, cwd, exit_code>>

\* lines 166-171: the child writes a line to its stderr, the terminal when
\* inherited, else the pipe the shell reads
ChildWriteErr(c) ==
    /\ c \in DOMAIN children
    /\ children[c].st = "err"
    /\ LET ch == children[c]
           l == ErrLine(ch.nerr + 1)
       IN /\ IF ch.stderr = NoPipe
             THEN /\ written' = Append(written, Printed(StdErrOutput, "stderr", ch.stage,
                                                        StripNewline(l), "child"))
                  /\ pipes' = pipes
             ELSE /\ Len(pipes[ch.stderr].buf) < PipeCap
                  /\ pipes' = WriteLine(pipes, ch.stderr, l)
                  /\ written' = written
          /\ children' = [children EXCEPT
                            ![c].nerr = @ + 1,
                            ![c].st = IF ch.nerr + 1 = ErrLines THEN "out" ELSE "err"]
    /\ UNCHANGED <<parseVars, pc, stage, input, xerr, threads, cwd, exit_code>>

\* lines 160-164: the child writes a line to its stdout, the terminal when
\* inherited, else the pipe the next stage or the shell reads
ChildWriteOut(c) ==
    /\ c \in DOMAIN children
    /\ children[c].st = "out"
    /\ children[c].nout < OutLines
    /\ LET ch == children[c]
           l == OutLine(ch.nout + 1)
       IN /\ IF ch.stdout = NoPipe
             THEN /\ written' = Append(written, Printed(StdOutput, "stdout", ch.stage,
                                                        StripNewline(l), "child"))
                  /\ pipes' = pipes
             ELSE /\ pipes[ch.stdout].r
                  /\ Len(pipes[ch.stdout].buf) < PipeCap
                  /\ pipes' = WriteLine(pipes, ch.stdout, l)
                  /\ written' = written
          /\ children' = [children EXCEPT ![c].nout = @ + 1]
    /\ UNCHANGED <<parseVars, pc, stage, input, xerr, threads, cwd, exit_code>>

\* the read end of the child's stdout is closed: the write fails and the
\* child is ended by SIGPIPE
ChildBrokenPipe(c) ==
    /\ c \in DOMAIN children
    /\ children[c].st = "out"
    /\ children[c].nout < OutLines
    /\ children[c].stdout # NoPipe
    /\ ~pipes[children[c].stdout].r
    /\ children' = [children EXCEPT ![c].st = "exited"]
    /\ pipes' = CloseChildEnds(pipes, children[c])
    /\ UNCHANGED <<parseVars, pc, stage, input, xerr, threads, written, cwd, exit_code>>

\* the child has written everything and exits
ChildExit(c) ==
    /\ c \in DOMAIN children
    /\ children[c].st = "out"
    /\ children[c].nout = OutLines
    /\ children' = [children EXCEPT ![c].st = "exited"]
    /\ pipes' = CloseChildEnds(pipes, children[c])
    /\ UNCHANGED <<parseVars, pc, stage, input, xerr, threads, written, cwd, exit_code>>

\* process::exit ends every thread of the shell
Running(t) == pc # "exited" /\ t \in DOMAIN threads

\* lines 206-208: the thread runs and calls child.wait()
WaiterStart(t) ==
    /\ Running(t)
    /\ threads[t].kind = "wait"
    /\ threads[t].st = "spawned"
    /\ threads' = [threads EXCEPT ![t].st = "waiting"]
    /\ UNCHANGED <<parseVars, pc, stage, input, xerr, children, pipes, written, cwd, exit_code>>

\* lines 206-208: child.wait() returns once the child has exited
WaiterReturn(t) ==
    /\ Running(t)
    /\ threads[t].kind = "wait"
    /\ threads[t].st = "waiting"
    /\ children[threads[t].child].st = "exited"
    /\ children' = [children EXCEPT ![threads[t].child].waited = @ + 1]
    /\ threads' = [threads EXCEPT ![t].st = "done"]
    /\ UNCHANGED <<parseVars, pc, stage, input, xerr, pipes, written, cwd, exit_code>>

\* lines 229-231: the thread writes the text and a newline into the pipe,
\* a piece at a time while the pipe has room, and drops the writer after the
\* last piece
WriterWrite(t) ==
    /\ Running(t)
    /\ threads[t].kind = "write"
    /\ threads[t].st = "spawned"
    /\ pipes[threads[t].pipe].r
    /\ Len(pipes[threads[t].pipe].buf) < PipeCap
    /\ LET ps == Pieces(PipedText(threads[t].text))
           k == threads[t].n + 1
           last == k >= Len(ps)
           sent == WriteLine(pipes, threads[t].pipe, ps[k])
       IN /\ pipes' = IF last THEN DropWriter(sent, threads[t].pipe) ELSE sent
          /\ threads' = [threads EXCEPT ![t].n = k,
                                        ![t].st = IF last THEN "done" ELSE "spawned"]
    /\ UNCHANGED <<parseVars, pc, stage, input, xerr, children, written, cwd, exit_code>>

\* lines 229-231: the read end is closed already; the error of the write is
\* ignored and the writer dropped
WriterFails(t) ==
    /\ Running(t)
    /\ threads[t].kind = "write"
    /\ threads[t].st = "spawned"
    /\ ~pipes[threads[t].pipe].r
    /\ pipes' = DropWriter(pipes, threads[t].pipe)
    /\ threads' = [threads EXCEPT ![t].st = "failed"]
    /\ UNCHANGED <<parseVars, pc, stage, input, xerr, children, written, cwd, exit_code>>

----------------------------------------------------------------------------

Next ==
    \/ SkipEmptyLine
    \/ ReadLine
    \/ UnquotedWhitespace
    \/ UnquotedPipe
    \/ UnquotedSingleQuote
    \/ UnquotedDoubleQuote
    \/ UnquotedBackslash
    \/ UnquotedOther
    \/ SingleQuotedClose
    \/ SingleQuotedOther
    \/ DoubleQuotedClose
    \/ DoubleQuotedBackslash
    \/ DoubleQuotedOther
    \/ EndOfPrompt
    \/ EmptyPipeline
    \/ SplitPipeline
    \/ ParseCommand
    \/ KeepWord
    \/ RedirectPathMissing
    \/ RedirectOpen
    \/ RedirectOpenFails
    \/ FinishCommand
    \/ HandlePipeline
    \/ ReportError
    \/ ExecExit
    \/ ExecCd
    \/ ExecCdFails
    \/ ExecBuiltinPrint
    \/ ExecBuiltinPipe
    \/ ExecHistory
    \/ ExecNotFound
    \/ ExecSpawnFails
    \/ ExecSpawn
    \/ DrainStderrLine
    \/ DrainStderrEof
    \/ DrainStdoutLine
    \/ DrainStdoutEof
    \/ WaitFinal
    \/ ReportStageError
    \/ \E c \in 1..MaxStages : ChildRead(c)
    \/ \E c \in 1..MaxStages : ChildReadEof(c)
    \/ \E c \in 1..MaxStages : ChildWriteErr(c)
    \/ \E c \in 1..MaxStages : ChildWriteOut(c)
    \/ \E c \in 1..MaxStages : ChildBrokenPipe(c)
    \/ \E c \in 1..MaxStages : ChildExit(c)
    \/ \E t \in 1..MaxStages : WaiterStart(t)
    \/ \E t \in 1..MaxStages : WaiterReturn(t)
    \/ \E t \in 1..MaxStages : WriterWrite(t)
    \/ \E t \in 1..MaxStages : WriterFails(t)

Spec == Init /\ [][Next]_vars

----------------------------------------------------------------------------
(* Properties *)

Range(f) == {f[i] : i \in DOMAIN f}

RECURSIVE Visits(_, _)
\* the tokenizer states at the head of each loop iteration from st on
Visits(p, st) ==
    IF st.pos > Len(p) THEN <<>> ELSE <<st>> \o Visits(p, StepChar(p, st))

\* positions of p the loop reads as `c` in Unquoted mode, resp. inside quotes
BarePositions(p) ==
    {v.pos : v \in {w \in Range(Visits(p, StartState)) : w.quote = "Unquoted"}}
QuotedPositions(p) ==
    {v.pos : v \in {w \in Range(Visits(p, StartState)) : w.quote # "Unquoted"}}

PositionsOf(p, cs) == {i \in 1..Len(p) : p[i] \in cs}
BarePipes(p) == BarePositions(p) \cap PositionsOf(p, {PIPE})
BareWhitespace(p) == BarePositions(p) \cap PositionsOf(p, {SP, TAB, NL})

\* the prompt has no quote character and no backslash
Unquoted(p) == PositionsOf(p, {SQUOTE, DQUOTE, BSLASH}) = {}

\* parse_prompt has returned
Tokenized == pc \notin {"readline", "tokenize"} /\ prompt # <<>>
\* parse_pipeline has split the tokens
Split == pc \notin {"readline", "tokenize", "pipeline"} /\ prompt # <<>>

NotWhitespace(c) == ~IsWhitespace(c)
IsBoundary(t) == t = <<PIPE>>

\* C1: a `|` inside single or double quotes is literal for the tokenizer and
\* for the pipeline assembler: a line all of whose `|` are inside quotes is
\* assembled as exactly one stage, made of all the words of the line, one of
\* which contains a `|`.
C1_QuotedPipeIsLiteral ==
    (/\ Split
     /\ PositionsOf(prompt, {PIPE}) # {}
     /\ PositionsOf(prompt, {PIPE}) \subseteq QuotedPositions(prompt))
    => /\ err # "empty pipeline"
       /\ segments = <<tokens>>
       /\ \E w \in Range(tokens) : PIPE \in Range(w)

\* words of letters only
PlainWords == SeqsUpTo({"a", "b"}, 2) \ {<<>>}

\* C2: a bare `|` ends the pending token and is a one-character token of its
\* own, with or without whitespace around it: `a|b` and `a | b` tokenize to
\* [a, "|", b] for all plain words a and b, and in a line without quotes and
\* backslashes every `|` is one boundary token, in the order of the line
\* (the tokens, concatenated, are the line without its whitespace, and no
\* other token contains a `|`).
C2_BarePipeIsBoundary ==
    Tokenized =>
      /\ \A a, b \in PlainWords :
            prompt \in {a \o <<PIPE>> \o b, a \o <<SP, PIPE, SP>> \o b}
            => tokens = <<a, <<PIPE>>, b>>
      /\ Unquoted(prompt) =>
            /\ Concat(tokens) = SelectSeq(prompt, NotWhitespace)
            /\ \A i \in DOMAIN tokens :
                  PIPE \in Range(tokens[i]) => tokens[i] = <<PIPE>>
            /\ Len(SelectSeq(tokens, IsBoundary))
                 = Cardinality(PositionsOf(prompt, {PIPE}))

\* a chain of two pipes without whitespace has been tokenized
C2_Witness ==
    /\ Tokenized
    /\ prompt = <<"a", PIPE, "b", PIPE, "a">>
    /\ tokens = << <<"a">>, <<PIPE>>, <<"b">>, <<PIPE>>, <<"a">> >>

IsWord(t) == t # <<PIPE>>

Reading(q) == pc = "tokenize" /\ pos <= Len(prompt) /\ quote = q
\* the character after prompt[pos], or None at the end of the line
Peek == IF pos + 1 <= Len(prompt) THEN prompt[pos + 1] ELSE None

\* C4: in DoubleQuoted mode `"` leaves the mode; a backslash before one of
\* backslash, `"`, `$`, backtick copies only that character; a backslash
\* before a newline removes both; a backslash before anything else, or at the
\* end of the line, is copied and the next character is not consumed; every
\* other character (a single quote too) is copied.  No token is ended.
C4_DoubleQuotedMode ==
    [][Reading("DoubleQuoted") =>
         /\ tokens' = tokens
         /\ CASE prompt[pos] = DQUOTE ->
                   quote' = "Unquoted" /\ buffer' = buffer /\ pos' = pos + 1
              [] prompt[pos] = BSLASH /\ Peek \in {BSLASH, DQUOTE, DOLLAR, BTICK} ->
                   /\ quote' = quote
                   /\ buffer' = Append(buffer, Peek)
                   /\ pos' = pos + 2
              [] prompt[pos] = BSLASH /\ Peek = NL ->
                   quote' = quote /\ buffer' = buffer /\ pos' = pos + 2
              [] OTHER ->
                   /\ quote' = quote
                   /\ buffer' = Append(buffer, prompt[pos])
                   /\ pos' = pos + 1]_vars

\* inside double quotes a newline after a backslash was removed with it, a
\* backslash before a single quote was kept and the single quote was copied
C4_Witness ==
    /\ Tokenized
    /\ prompt = <<DQUOTE, BSLASH, NL, BSLASH, SQUOTE>>
    /\ tokens = << <<BSLASH, SQUOTE>> >>

\* C5: in SingleQuoted mode every character but `'` is appended to the
\* current token unchanged (backslash, double quote, whitespace and `|`
\* included) and consumes nothing else; `'` is not copied and returns to
\* Unquoted mode.
C5_SingleQuotedMode ==
    [][Reading("SingleQuoted") =>
         /\ tokens' = tokens
         /\ pos' = pos + 1
         /\ IF prompt[pos] = SQUOTE
            THEN quote' = "Unquoted" /\ buffer' = buffer
            ELSE quote' = quote /\ buffer' = Append(buffer, prompt[pos])]_vars

\* a backslash, a double quote and a space inside single quotes are the token
C5_Witness ==
    /\ Tokenized
    /\ prompt = <<SQUOTE, BSLASH, DQUOTE, SP, SQUOTE>>
    /\ tokens = << <<BSLASH, DQUOTE, SP>> >>

\* C6: in Unquoted mode a backslash is dropped and the character after it is
\* appended to the current token without being interpreted: the mode and the
\* tokens are unchanged and the tokenizer continues after that character.
C6_UnquotedBackslash ==
    [][(Reading("Unquoted") /\ prompt[pos] = BSLASH /\ pos + 1 <= Len(prompt)) =>
         /\ buffer' = Append(buffer, prompt[pos + 1])
         /\ tokens' = tokens
         /\ quote' = quote
         /\ pos' = pos + 2]_vars

\* an escaped quote, an escaped space and a letter are one token and the line
\* ends in Unquoted mode
C6_Witness ==
    /\ Tokenized
    /\ prompt = <<BSLASH, SQUOTE, BSLASH, SP, "a">>
    /\ tokens = << <<SQUOTE, SP, "a">> >>
    /\ quote = "Unquoted"

\* C7: for a line without quote characters and backslashes, tokenizing,
\* joining the tokens with single spaces and tokenizing again gives the same
\* tokens.
C7_RoundTrip ==
    (Tokenized /\ Unquoted(prompt)) => ParsePrompt(JoinSpaces(tokens)) = tokens

\* a line whose rejoined tokens are another text than the line itself
C7_Witness ==
    /\ Tokenized
    /\ Unquoted(prompt)
    /\ Len(tokens) >= 3
    /\ \E i \in DOMAIN tokens : tokens[i] = <<PIPE>>
    /\ JoinSpaces(tokens) # prompt

RECURSIVE IsOperatorAt(_, _)
\* word i of a is read as a redirect operator: it is one of the six and is
\* not the path of an operator before it
IsOperatorAt(a, i) ==
    /\ a[i] \in {<<">">>, <<"1", ">">>, <<">", ">">>, <<"1", ">", ">">>,
                 <<"2", ">">>, <<"2", ">", ">">>}
    /\ (i = 1 \/ ~IsOperatorAt(a, i - 1))

OperatorPositions(a) == {i \in 1..Len(a) : IsOperatorAt(a, i)}
PathPositions(a) == {i \in 2..Len(a) : IsOperatorAt(a, i - 1)}

RECURSIVE WordsOutside(_, _, _)
\* the words of a from position i on whose position is not in S, in order
WordsOutside(a, S, i) ==
    IF i > Len(a) THEN <<>>
    ELSE (IF i \in S THEN <<>> ELSE <<a[i]>>) \o WordsOutside(a, S, i + 1)

MaxOf(S) == CHOOSE m \in S : \A n \in S : n <= m

\* the sink of a stream: the terminal sink when no operator of the stream is
\* among the words, else the file after the stream's last operator
SinkOf(a, truncate, append, terminal) ==
    LET ops == {i \in OperatorPositions(a) : a[i] \in truncate \cup append} IN
    IF ops = {} THEN terminal
    ELSE [kind |-> "FileOutput", path |-> a[MaxOf(ops) + 1],
          append |-> a[MaxOf(ops)] \in append]

\* extract_redirects is about to return Ok
Extracted == pc = "redirects" /\ ai > Len(args)

\* C8: each redirect operator is consumed with the word after it and neither
\* is in the filtered words; all other words are, in their order; `>`/`1>`
\* make stdout a truncating file sink, `>>`/`1>>` an appending one, `2>`/`2>>`
\* make stderr a truncating/appending file sink; a stream without operator
\* keeps the terminal sink.
C8_RedirectExtraction ==
    Extracted =>
      /\ filtered = WordsOutside(args, OperatorPositions(args) \cup PathPositions(args), 1)
      /\ stdout = SinkOf(args, {<<">">>, <<"1", ">">>},
                         {<<">", ">">>, <<"1", ">", ">">>}, StdOutput)
      /\ stderr = SinkOf(args, {<<"2", ">">>}, {<<"2", ">", ">">>}, StdErrOutput)

\* `a 1>> f`: a kept word and an appending stdout sink, stderr on the terminal
C8_Witness ==
    /\ Extracted
    /\ args = << <<"a">>, <<"1", ">", ">">>, <<"f">> >>
    /\ filtered = << <<"a">> >>
    /\ stdout = FileOutput(<<"f">>, TRUE)
    /\ stderr = StdErrOutput

\* C9: an operator that is the last word of a stage makes the extraction
\* fail ("redirect path missing") instead of returning words and sinks:
\* the extraction never returns Ok for such words, and the failure is
\* raised exactly there, with no command built for the stage.
C9_MissingRedirectTarget ==
    /\ (Extracted /\ args # <<>>) => Len(args) \notin OperatorPositions(args)
    /\ (pc = "redirects" /\ err = None
          /\ args # <<>> /\ Len(args) \in OperatorPositions(args)) => ai <= Len(args)
    /\ err = "redirect path missing" =>
          /\ args # <<>>
          /\ Len(args) \in OperatorPositions(args)
          /\ Len(commands) = seg - 1
          /\ final_streams = None
          /\ ~started

\* the extraction has failed at a trailing `2>>`
C9_Witness ==
    /\ pc = "failed"
    /\ err = "redirect path missing"
    /\ args = << <<"a">>, <<"2", ">", ">">> >>

\* C10: a line whose parsing fails (operator without target, or empty
\* pipeline) is rejected before anything runs: nothing is executed, no
\* redirect target named on the line has been created or truncated, and the
\* error is reported on stderr.
C10_ParseErrorHasNoEffect ==
    err \in {"redirect path missing", "empty pipeline"} =>
      /\ ~started
      /\ opened = <<>>
      /\ pc = "done" => terminal_err # <<>>

\* the positions where a maximal run of tokens other than the boundary
\* token starts, and the end of the run that starts at i
RunStarts(t) ==
    {i \in 1..Len(t) : ~IsBoundary(t[i]) /\ (i = 1 \/ IsBoundary(t[i - 1]))}
RunEnd(t, i) ==
    MaxOf({j \in i..Len(t) : \A m \in i..j : ~IsBoundary(t[m])})
\* the k-th smallest element of a set of numbers
Nth(S, k) == CHOOSE x \in S : Cardinality({y \in S : y < x}) = k - 1
\* the words of segment sg that are neither a redirect operator nor its path
StageWords(sg) ==
    WordsOutside(Tail(sg), OperatorPositions(Tail(sg)) \cup PathPositions(Tail(sg)), 1)

\* C11: the segments are the maximal runs of tokens between boundary tokens,
\* in their order, with no empty segment (leading, trailing and doubled
\* pipes leave none); the commands built are one per segment, in the order
\* of the segments; and the assembler fails with "empty pipeline" exactly
\* when the tokens hold no such run.
C11_SegmentsAndIntents ==
    Split =>
      /\ err = "empty pipeline" <=> RunStarts(tokens) = {}
      /\ Len(segments) = Cardinality(RunStarts(tokens))
      /\ \A k \in DOMAIN segments :
           LET i == Nth(RunStarts(tokens), k) IN
           segments[k] = SubSeq(tokens, i, RunEnd(tokens, i))
      /\ Len(commands) <= Len(segments)
      /\ pc \notin {"command", "redirects", "failed"} /\ err = None =>
           Len(commands) = Len(segments)
      /\ \A k \in DOMAIN commands :
           commands[k] = BuildCommand(Head(segments[k]), StageWords(segments[k]))

\* `|a||b`: a leading and a doubled pipe, two commands
C11_Witness ==
    /\ pc = "parsed"
    /\ prompt = <<PIPE, "a", PIPE, PIPE, "b">>
    /\ segments = << << <<"a">> >>, << <<"b">> >> >>
    /\ Len(commands) = 2
    /\ commands[1].command = <<"a">>
    /\ commands[2].command = <<"b">>

\* the names of the built-ins and the Intent of each
BuiltinIntents ==
    (<<"e", "x", "i", "t">> :> "Exit") @@ (<<"e", "c", "h", "o">> :> "Echo")
      @@ (<<"t", "y", "p", "e">> :> "Type") @@ (<<"p", "w", "d">> :> "Pwd")
      @@ (<<"c", "d">> :> "Cd")
      @@ (<<"h", "i", "s", "t", "o", "r", "y">> :> "History")

\* C12: a stage is a built-in Intent exactly when its first word is, in
\* full and in the same case, one of exit, echo, type, pwd, cd, history;
\* any other first word gives an External Intent whose program is that word
\* and whose argv is the words after it that are neither a redirect operator
\* nor its path, in order.
C12_CommandResolution ==
    \A k \in DOMAIN commands :
      LET w == Head(segments[k]) IN
      /\ commands[k].kind # "Exec" <=> w \in DOMAIN BuiltinIntents
      /\ w \in DOMAIN BuiltinIntents => commands[k].kind = BuiltinIntents[w]
      /\ w \notin DOMAIN BuiltinIntents =>
           /\ commands[k].command = w
           /\ commands[k].args = StageWords(segments[k])

\* `Echo > f a` is the program Echo with the argument a
C12_Witness ==
    /\ pc = "parsed"
    /\ segments = << << <<"E", "c", "h", "o">>, <<">">>, <<"f">>, <<"a">> >> >>
    /\ commands[1].kind = "Exec"
    /\ commands[1].command = <<"E", "c", "h", "o">>
    /\ commands[1].args = << <<"a">> >>

\* the control character of each escape letter
ControlChars ==
    ("n" :> NL) @@ ("t" :> TAB) @@ ("r" :> CR) @@ (BSLASH :> BSLASH)
      @@ ("a" :> BEL) @@ ("b" :> BS) @@ ("f" :> FF) @@ ("v" :> VT) @@ ("e" :> ESC)

\* position i of s holds a backslash that starts an escape: the backslashes
\* directly before it are even in number
EscapeStart(s, i) ==
    /\ i \in 1..Len(s)
    /\ s[i] = BSLASH
    /\ LET before == MaxOf({0} \cup {j \in 1..(i - 1) : s[j] # BSLASH})
       IN (i - 1 - before) % 2 = 0

\* what position i of s contributes to the text with the escapes interpreted
EscapePiece(s, i) ==
    IF EscapeStart(s, i)
    THEN IF i = Len(s) THEN <<BSLASH>>
         ELSE IF s[i + 1] \in DOMAIN ControlChars THEN <<ControlChars[s[i + 1]]>>
         ELSE <<BSLASH, s[i + 1]>>
    ELSE IF EscapeStart(s, i - 1) THEN <<>> ELSE <<s[i]>>

Unescaped(s) == Concat([i \in 1..Len(s) |-> EscapePiece(s, i)])

\* the text echo emits for the argument words ws
EchoText(ws) ==
    IF ws # <<>> /\ ws[1] = <<"-", "e">>
    THEN Unescaped(JoinSpaces(Tail(ws)))
    ELSE JoinSpaces(ws)

\* the lines the shell printed for stage k
PrintedBy(k) == SelectSeq(written, LAMBDA e : e.stage = k /\ e.by = "shell")

\* C13: echo interprets escapes only when its first argument word is exactly
\* -e, in one pass from the left over the other words joined by single
\* spaces: \n \t \r \\ \a \b \f \v \e give their control characters, a
\* backslash before any other character leaves both, a backslash at the end
\* stays; without -e the joined words are printed as they are.
C13_EchoEscapes ==
    \A k \in DOMAIN commands :
      (commands[k].kind = "Echo" /\ PrintedBy(k) # <<>>) =>
         /\ Len(PrintedBy(k)) = 1
         /\ PrintedBy(k)[1].text = EchoText(StageWords(segments[k]))
         /\ (StageWords(segments[k]) = << <<"-", "e">>, <<"a", BSLASH, "t", "b">> >>
               => PrintedBy(k)[1].text = <<"a", TAB, "b">>)
         /\ (StageWords(segments[k]) = << <<"a", BSLASH, "t", "b">> >>
               => PrintedBy(k)[1].text = <<"a", BSLASH, "t", "b">>)

\* `echo -e "a\tb"` has printed a, a tab and b
C13_Witness ==
    /\ pc = "done"
    /\ prompt = <<"e", "c", "h", "o", SP, "-", "e", SP,
                  DQUOTE, "a", BSLASH, "t", "b", DQUOTE>>
    /\ Len(written) = 1
    /\ written[1].text = <<"a", TAB, "b">>
    /\ written[1].dest = StdOutput
    /\ written[1].stream = "stdout"

\* stage k has been executed: execute_command was called for it
Executed(k) == started /\ (stage > k \/ (stage = k /\ pc # "stage"))
\* the lines in `written` that went to the stdout of the line
StdoutLines == SelectSeq(written, LAMBDA e : e.stream = "stdout")
\* the text of the error for a program that is not found
NotFoundText(nm) == nm \o <<": command not found">>
\* the names for which a PATH directory holds a file with an executable bit
OnPath == {<<"p">>, <<"q">>, <<"r">>, <<"l">>, <<"u">>, <<"w">>}
\* stage k names a program the search path does not hold
Unresolvable(k) ==
    /\ k \in DOMAIN commands
    /\ started
    /\ Head(segments[k]) \notin DOMAIN BuiltinIntents
    /\ Head(segments[k]) \notin OnPath

\* C14: when stage k names a program the lookup does not find, the pipeline
\* halts there: no process exists for stage k or a later one and no stage
\* after k is executed; the error `<name>: command not found` is returned
\* and, at the end, printed on the stderr sink; the children of the stages
\* before k are not ended by the shell (a child ends only after writing all
\* its output, or by writing to a pipe whose read end is closed); with k the
\* first stage nothing goes to stdout.
C14_NotFoundHalts ==
    /\ \A k \in DOMAIN commands :
         Unresolvable(k) =>
           /\ stage <= k
           /\ \A c \in DOMAIN children : children[c].stage < k
           /\ Executed(k) =>
                /\ pc \in {"stage_failed", "done"}
                /\ xerr = NotFoundText(Head(segments[k]))
                /\ pc = "done" =>
                     \E i \in DOMAIN written :
                        /\ written[i].text = NotFoundText(Head(segments[k]))
                        /\ written[i].dest = final_streams.stderr
                        /\ written[i].stream = "stderr"
           /\ k = 1 => StdoutLines = <<>>
    /\ \A c \in DOMAIN children :
         children[c].st = "exited" =>
           \/ children[c].nout = OutLines
           \/ children[c].stdout # NoPipe /\ ~pipes[children[c].stdout].r

\* `p|a`: the pipeline has halted at a, p has ended on its own and is waited
C14_Witness ==
    /\ pc = "done"
    /\ prompt = <<"p", PIPE, "a">>
    /\ xerr = <<"a", ": command not found">>
    /\ Len(children) = 1
    /\ children[1].st = "exited"
    /\ children[1].waited = 1

\* the waits that are pending: the threads that have not returned from wait
PendingWaits == {t \in DOMAIN threads : threads[t].kind = "wait" /\ threads[t].st # "done"}

\* C15: an Exit stage ends the shell process at once with code 0, wherever
\* the stage is: no later stage is executed, and once the process has ended
\* no wait for an earlier child is performed and nothing more is printed by
\* the shell.
C15_ExitEndsTheShell ==
    /\ [](\A k \in DOMAIN commands :
            (commands[k].kind = "Exit" /\ started) =>
               /\ stage <= k
               /\ \A c \in DOMAIN children : children[c].stage < k
               /\ Executed(k) => pc = "exited" /\ exit_code = <<0>>)
    /\ [][pc = "exited" =>
            /\ pc' = "exited"
            /\ exit_code' = <<0>>
            /\ threads' = threads
            /\ \A c \in DOMAIN children : children'[c].waited = children[c].waited
            /\ SelectSeq(written', LAMBDA e : e.by = "shell")
                 = SelectSeq(written, LAMBDA e : e.by = "shell")
            /\ UNCHANGED <<stage, cwd, xerr>>]_vars

\* `p|exit`: the shell has ended while the wait for p is pending and p runs
C15_Witness ==
    /\ pc = "exited"
    /\ exit_code = <<0>>
    /\ prompt = <<"p", PIPE, "e", "x", "i", "t">>
    /\ PendingWaits # {}
    /\ children[1].st # "exited"
    /\ children[1].waited = 0

\* C16: the execution of a pipeline never deadlocks: as long as it has not
\* completed (or ended the shell), the shell, one of its threads or one of
\* the programs can take a step, whatever the programs write and whatever
\* the sinks are.
C16_NoDeadlock ==
    (started /\ pc \notin {"done", "exited"}) => ENABLED Next

\* the children and the threads whose output is pipe i
ChildrenInto(i) == {d \in DOMAIN children : children[d].stdout = i}
ThreadsInto(i) ==
    {t \in DOMAIN threads : threads[t].kind = "write" /\ threads[t].pipe = i}
\* the lines a program has written to its stdout so far
WrittenBy(d) == [k \in 1..children[d].nout |-> <<"o", Digits[k], NL>>]
IsPrefix(a, b) == Len(a) <= Len(b) /\ a = SubSeq(b, 1, Len(a))
\* child c reads from a pipe
ReadsPipe(c) == c \in DOMAIN children /\ children[c].stdin # NoPipe

NamedDir(path, d) ==
    IF path = <<>> \/ path = <<TILDE>> THEN <<SLASH, "h">>
    ELSE IF Len(path) >= 2 /\ path[1] = TILDE /\ path[2] = SLASH
         THEN <<SLASH, "h", SLASH>> \o SubSeq(path, 3, Len(path))
    ELSE IF path[1] = SLASH THEN path
    ELSE d \o <<SLASH>> \o path
\* the directories that exist
ExistingDirs == {<<SLASH, "h">>, <<SLASH, "s">>, <<SLASH, "h", SLASH, "d">>,
                 <<SLASH, "s", SLASH, "d">>}
\* the path of the Cd of stage k
CdPath(k) == JoinSpaces(StageWords(segments[k]))

RECURSIVE CwdAfter(_)
\* the working directory after the first n stages
CwdAfter(n) ==
    IF n = 0 THEN <<SLASH, "s">>
    ELSE LET d == CwdAfter(n - 1) IN
         IF commands[n].kind = "Cd" /\ NamedDir(CdPath(n), d) \in ExistingDirs
         THEN NamedDir(CdPath(n), d) ELSE d

\* C18: cd to a path that names no directory returns the error
\* `cd: <path>: No such file or directory`, which is printed on the stderr
\* sink, leaves the working directory as it was and does not end the shell
\* (only an Exit stage after it does);
\* cd with no path or `~` changes to the home directory and `~/rest` to rest
\* below it; a cd stage prints nothing on stdout.
C18_CdChangesOrReports ==
    /\ cwd = CwdAfter(IF ~started THEN 0 ELSE IF pc = "stage" THEN stage - 1 ELSE stage)
    /\ \A k \in DOMAIN commands :
         (commands[k].kind = "Cd" /\ Executed(k)) =>
            /\ pc = "exited" => stage > k
            /\ NamedDir(CdPath(k), CwdAfter(k - 1)) \in ExistingDirs =>
                 /\ PrintedBy(k) = <<>>
                 /\ stage = k => pc = "done" /\ xerr = <<>>
            /\ NamedDir(CdPath(k), CwdAfter(k - 1)) \notin ExistingDirs =>
                 /\ stage = k
                 /\ pc \in {"stage_failed", "done"}
                 /\ xerr = <<"cd: ">> \o CdPath(k) \o <<": No such file or directory">>
                 /\ PrintedBy(k) = IF pc = "done"
                                   THEN <<[dest |-> final_streams.stderr,
                                           stream |-> "stderr", stage |-> k,
                                           text |-> xerr, by |-> "shell"]>>
                                   ELSE <<>>
            /\ \A i \in DOMAIN written :
                 written[i].stage = k => written[i].stream = "stderr"

\* `cd ~/x`: no such directory below home; reported, directory unchanged
C18_Witness ==
    /\ pc = "done"
    /\ prompt = <<"c", "d", SP, TILDE, SLASH, "x">>
    /\ cwd = <<SLASH, "s">>
    /\ Len(written) = 1
    /\ written[1].text = <<"cd: ", TILDE, SLASH, "x", ": No such file or directory">>
    /\ written[1].dest = StdErrOutput

\* the threads that wait for child c
WaitersOf(c) == {t \in DOMAIN threads : threads[t].kind = "wait" /\ threads[t].child = c}
\* the write end of the pipe that is child c's stdout is closed
OutputClosed(c) == children[c].stdout # NoPipe /\ ~pipes[children[c].stdout].w
\* child c belongs to the last stage of the line
OfLastStage(c) == children[c].stage = Len(commands)
\* the shell has spawned child c and gone on to the next stage
HandedOn(c) == stage > children[c].stage

IsErrLine(text) == \E k \in 1..ErrLines : text = <<"e", Digits[k]>>

Completed == IF ~started THEN 0
             ELSE IF pc = "stage" THEN stage - 1
             ELSE IF pc = "done" /\ xerr = <<>> THEN stage
             ELSE stage - 1

\* C21: for a pipeline of N stages exactly N-1 pipes are created, one by
\* each stage before the last when it is executed and none by the last
\* stage, whatever the kinds of the stages and the sinks of the line.
C21_ConduitsCreated ==
    (started /\ pc \in {"stage", "done"} /\ xerr = <<>>) =>
       Len(pipes) = IF Completed = Len(commands) THEN Len(commands) - 1
                    ELSE Completed

\* C22: every stage before the last hands a pipe to read from to the next
\* stage, whatever its kind: the stage after it is executed with that pipe
\* as its input, and a program spawned at a stage after the first has it as
\* its stdin; only the first stage inherits the stdin of the shell.
C22_InteriorStageHandsConduit ==
    /\ (started /\ pc = "stage" /\ stage > 1) => input # NoPipe
    /\ \A c \in DOMAIN children : children[c].stage > 1 => children[c].stdin # NoPipe

\* parse_pipeline has returned Ok
Parsed == pc = "parsed" \/ started
\* the words after the name in the last segment
LastArgs == Tail(segments[Len(segments)])

\* C23: the sinks of an assembled pipeline are those extracted from its last
\* segment alone (the file after the last operator of the stream there, else
\* the terminal), whatever redirects the segments before it hold; and a
\* stage before the last writes nothing to the stdout of the line: its
\* program's stdout is a pipe and the shell prints nothing on stdout for it.
C23_SinksOfLastSegment ==
    Parsed =>
      /\ final_streams.stdout = SinkOf(LastArgs, {<<">">>, <<"1", ">">>},
                                       {<<">", ">">>, <<"1", ">", ">">>}, StdOutput)
      /\ final_streams.stderr = SinkOf(LastArgs, {<<"2", ">">>}, {<<"2", ">", ">">>},
                                       StdErrOutput)
      /\ \A i \in DOMAIN written :
           written[i].stage < Len(commands) => written[i].stream # "stdout"
      /\ \A c \in DOMAIN children :
           children[c].stage < Len(commands) => children[c].stdout # NoPipe

\* `p > f|p 2> h`: the line has run; f was opened for the first stage, yet
\* the stdout sink is the terminal and the output of the first p went to
\* the second
C23_Witness ==
    /\ pc = "done"
    /\ prompt = <<"p", SP, ">", SP, "f", PIPE, "p", SP, "2", ">", SP, "h">>
    /\ opened = <<[path |-> <<"f">>, append |-> FALSE], [path |-> <<"h">>, append |-> FALSE]>>
    /\ final_streams = OutputStreams(StdOutput, FileOutput(<<"h">>, FALSE))
    /\ children[2].got = <<OutLine(1), OutLine(2)>>
    /\ \E i \in DOMAIN written :
         written[i].stage = 2 /\ written[i].stream = "stdout" /\ written[i].dest = StdOutput

\* a segment before the last holds a redirect operator
InteriorRedirect ==
    /\ Split
    /\ \E k \in 1..(Len(segments) - 1) : OperatorPositions(Tail(segments[k])) # {}

\* C24: a line with a redirect operator in a stage before the last is
\* rejected by the assembler: no file is opened for it, parse_pipeline does
\* not return Ok and no stage is executed.
C24_InteriorRedirectRejected ==
    InteriorRedirect =>
      /\ opened = <<>>
      /\ pc # "parsed"
      /\ ~started

\* the operators of each stream
StdoutOperators == {<<">">>, <<"1", ">">>, <<">", ">">>, <<"1", ">", ">">>}
StderrOperators == {<<"2", ">">>, <<"2", ">", ">">>}
\* the positions in the words a of the operators of a stream, and the file
\* sinks the words name for it, in order
RedirectsOf(a, ops) == {i \in OperatorPositions(a) : a[i] \in ops}
Named(a, ops) ==
    [k \in 1..Cardinality(RedirectsOf(a, ops)) |->
       LET i == Nth(RedirectsOf(a, ops), k) IN
       [kind |-> "FileOutput", path |-> a[i + 1],
        append |-> a[i] \in {<<">", ">">>, <<"1", ">", ">">>, <<"2", ">", ">">>}]]
\* the last of the sinks named for a stream, or the terminal sink
LastNamed(a, ops, terminal) ==
    IF Named(a, ops) = <<>> THEN terminal ELSE Named(a, ops)[Len(Named(a, ops))]

\* C25: when the words of a stage redirect a stream more than once, the
\* last redirect of that stream gives its sink, and the redirects of the
\* other stream have no part in it; everything the last stage sends to a
\* stream is written to that sink and to no target named before it.
C25_LastRedirectWins ==
    /\ Extracted =>
         /\ stdout = LastNamed(args, StdoutOperators, StdOutput)
         /\ stderr = LastNamed(args, StderrOperators, StdErrOutput)
    /\ started =>
         \A i \in DOMAIN written :
           written[i].stage = Len(commands) =>
             /\ written[i].stream = "stdout" =>
                  written[i].dest = LastNamed(LastArgs, StdoutOperators, StdOutput)
             /\ written[i].stream = "stderr" =>
                  written[i].dest = LastNamed(LastArgs, StderrOperators, StdErrOutput)

\* `echo a > f 2> g >> h`: three files were opened and the line is in h alone
C25_Witness ==
    /\ pc = "done"
    /\ prompt = <<"e", "c", "h", "o", SP, "a", SP, ">", SP, "f", SP, "2", ">", SP, "g",
                  SP, ">", ">", SP, "h">>
    /\ Len(opened) = 3
    /\ final_streams = OutputStreams(FileOutput(<<"h">>, TRUE), FileOutput(<<"g">>, FALSE))
    /\ written = <<Printed(FileOutput(<<"h">>, TRUE), "stdout", 1, <<"a">>, "shell")>>

\* the line p with the quote of mode q closed at its end
Closed(p, q) ==
    CASE q = "SingleQuoted" -> p \o <<SQUOTE>>
      [] q = "DoubleQuoted" -> p \o <<DQUOTE>>
      [] OTHER -> p
\* the number of backslashes p ends with
TrailingBackslashes(p) == Len(p) - MaxOf({0} \cup {j \in 1..Len(p) : p[j] # BSLASH})
\* the line ends inside double quotes with a backslash that escapes nothing
DanglingBackslash == quote = "DoubleQuoted" /\ TrailingBackslashes(prompt) % 2 = 1
\* the tokenizer runs, and never fails: it starts in Unquoted mode, can take
\* a step until it has returned, and its tokens are never empty strings
TokenizerTotal ==
    /\ (pc = "tokenize" /\ pos = 1) => quote = "Unquoted" /\ tokens = <<>> /\ buffer = <<>>
    /\ pc = "tokenize" => pos <= Len(prompt) + 1 /\ err = None /\ ENABLED Next
    /\ (pc \in {"tokenize", "pipeline"}) => \A i \in DOMAIN tokens : tokens[i] # <<>>

\* C26 as claimed: the tokenizer is total and starts in Unquoted mode, and
\* for a line that ends inside an open quote it returns the tokens it
\* returns for the same line with the quote closed at its end.
C26_UnterminatedQuoteAsClosed ==
    /\ TokenizerTotal
    /\ Tokenized => tokens = ParsePrompt(Closed(prompt, quote))

\* C26 as amended: the same, except for a line that ends inside double
\* quotes with a backslash that escapes nothing: there the backslash is kept
\* as the last character of the last token, as for the line with that
\* backslash doubled and the quote closed (with the quote closed after the
\* single backslash, the backslash would escape it).
C26_UnterminatedQuoteAsClosedUnlessBackslash ==
    /\ TokenizerTotal
    /\ Tokenized =>
         tokens = ParsePrompt(IF DanglingBackslash
                              THEN prompt \o <<BSLASH, DQUOTE>>
                              ELSE Closed(prompt, quote))
    /\ (Tokenized /\ DanglingBackslash) =>
         /\ tokens # <<>>
         /\ tokens[Len(tokens)][Len(tokens[Len(tokens)])] = BSLASH

\* `"a a`: the line has ended inside double quotes and `a a` is the token
C26_Witness ==
    /\ pc = "pipeline"
    /\ prompt = <<DQUOTE, "a", SP, "a">>
    /\ quote = "DoubleQuoted"
    /\ tokens = << <<"a", SP, "a">> >>

\* the PATH directories, by position, that hold a regular file named nm with
\* an executable bit
Matches(nm) ==
    {i \in DOMAIN PathDirs :
       \E e \in PathEntries :
          e.path = PathDirs[i] \o <<SLASH>> \o nm /\ e.is_file /\ e.xbit}
\* the canonical path of the entry named nm in the first such directory
FirstMatch(nm) ==
    LET i == CHOOSE m \in Matches(nm) : \A n \in Matches(nm) : m <= n
    IN (CHOOSE e \in PathEntries : e.path = PathDirs[i] \o <<SLASH>> \o nm).real
\* stage k is `type nm` for a name that is no built-in
TypeOfProgram(k) ==
    commands[k].kind = "Type" /\ commands[k].text \notin DOMAIN BuiltinIntents

\* C27: the lookup takes the first PATH directory, in listed order, that
\* holds a regular file of that name with an executable bit, and gives its
\* canonical path; `type <name>` reports that path (or `not found` when no
\* directory holds one); an executed stage that names a program with such a
\* match runs that same file, and a name without a match is never spawned.
C27_LookupFirstMatch ==
    /\ \A k \in DOMAIN commands :
         (TypeOfProgram(k) /\ PrintedBy(k) # <<>>) =>
            PrintedBy(k)[1].text =
               IF Matches(commands[k].text) = {}
               THEN commands[k].text \o <<": not found">>
               ELSE commands[k].text \o <<" is ">> \o FirstMatch(commands[k].text)
    /\ \A c \in DOMAIN children :
         LET nm == commands[children[c].stage].command IN
         /\ Matches(nm) # {}
         /\ children[c].program = FirstMatch(nm)
    /\ \A k \in DOMAIN commands :
         (commands[k].kind = "Exec" /\ Executed(k)
            /\ Matches(commands[k].command) # {}) =>
               \E c \in DOMAIN children : children[c].stage = k

----------------------------------------------------------------------------
(* C28: the thread of pipe_string *)

\* the threads of pipe_string
Workers == {t \in DOMAIN threads : threads[t].kind = "write"}
\* the thread has returned: the write succeeded or failed, the writer is
\* dropped
Returned(t) == threads[t].st \in {"done", "failed"} /\ ~pipes[threads[t].pipe].w
\* the thread cannot go on in this state and nothing else can happen that
\* would let it: it is blocked in its write for good
BlockedForever(t) == ~Returned(t) /\ pc # "exited" /\ ~ENABLED Next

\* C28 (termination alone): a thread of pipe_string is never blocked for
\* good: until it has returned (or the shell has ended) some step of the
\* thread, of a program or of the shell is possible.
WorkerNeverBlocked == \A t \in Workers : ~BlockedForever(t)

\* C28: the thread of pipe_string always terminates and closes the write end:
\* it is never blocked for good, whether the next stage reads the pipe, drops
\* the read end or the line is longer than the pipe takes; once it returns
\* the write end is closed, a failed write leaves the pipeline as it is, and a
\* stage that reads the pipe to the end has read the line and a newline.
C28_WorkerTerminates ==
    \A t \in Workers :
      /\ ~BlockedForever(t)
      /\ threads[t].st \in {"done", "failed"} => ~pipes[threads[t].pipe].w
      /\ threads[t].st = "failed" => ~pipes[threads[t].pipe].r
      /\ \A c \in DOMAIN children :
           (children[c].stdin = threads[t].pipe /\ children[c].eof) =>
             Concat(children[c].got) = PipedText(threads[t].text)

====
